---- MODULE Spec2Model ----
(***************************************************************************)
(* State-machine model of the jobflow-ai request handlers:                 *)
(*   api/jobs.ts          jobs endpoint    (GET / POST upsert / DELETE)    *)
(*   unnamed/part_000     profile endpoint (GET / POST insert-or-update)   *)
(*   api/search-nearby.ts nearby-search endpoint (POST)                    *)
(* One process serves the three handler modules.  Each module keeps its    *)
(* own lazily created database handle; the jobs and profiles tables are    *)
(* shared through the database.  A handler runs up to its next database    *)
(* round trip in one step; the profile POST has two round trips (SELECT,   *)
(* then INSERT or UPDATE) and therefore two steps, between which other     *)
(* requests may run.                                                       *)
(***************************************************************************)
EXTENDS Integers, Sequences, FiniteSets, TLC

(***************************************************************************)
(* Bounds of the model.                                                    *)
(***************************************************************************)
\* NOW() is a counter that advances with every write statement; writes stop at MaxClock.
MaxClock == 2
\* Number of requests the whole deployment serves in specification Spec.
MaxRequests == 2
\* Number of profile POSTs that may be suspended between their two statements.
MaxInflight == 2
\* Number of virtual directory handles the client obtains.
MaxHandles == 3
\* Length of the longest reply text of the model to the match-score prompt.
MaxReplyLen == 3
\* Number of query parameters of the longest URL handed to getSmartApplicationUrl.
MaxParams == 2
\* Chunks of text in the longest company name handed to a generation function.
MaxChunks == 2
\* syncData calls of the client shell that overlap.
MaxSyncCalls == 2
\* Versions of one job the user produces by editing it.
MaxVersions == 2
\* Local changes of the job list whose save is still under way.
MaxSaves == 1

(***************************************************************************)
(* Values.                                                                 *)
(***************************************************************************)
Users == {"user_A", "user_B"}            \* subjects the auth provider knows
DevUser == "dev_user_123"
None == "none"                            \* no acting user / no id
Null == "NULL"                            \* SQL NULL, JS null / undefined once stored
JobIds == {"j1", "j2"}
Slots == 1..MaxInflight

JobFields == {"id", "title", "company", "description", "status", "source",
              "applicationUrl", "matchScore", "coverLetter", "customizedResume",
              "location", "salaryRange", "requirements", "notes", "logoUrl"}

NearbyFields == {"lat", "lng", "role"}

\* Two versions of every body field value, so that an update is visible.  A JS
\* object is the set of its key/value pairs, an array is a sequence.
FieldVals(v) ==
  [title |-> IF v = 1 THEN "title1" ELSE "title2",
   company |-> IF v = 1 THEN "company1" ELSE "company2",
   description |-> IF v = 1 THEN "descr1" ELSE "descr2",
   status |-> IF v = 1 THEN "Saved" ELSE "Interview",
   source |-> IF v = 1 THEN "Gmail" ELSE "LinkedIn",
   applicationUrl |-> IF v = 1 THEN "url1" ELSE "url2",
   matchScore |-> IF v = 1 THEN 70 ELSE 85,
   coverLetter |-> IF v = 1 THEN "letter1" ELSE "letter2",
   customizedResume |-> IF v = 1 THEN "resume1" ELSE "resume2",
   location |-> IF v = 1 THEN "loc1" ELSE "loc2",
   salaryRange |-> IF v = 1 THEN "sal1" ELSE "sal2",
   requirements |-> IF v = 1 THEN <<"req1">> ELSE <<"req2", "req3">>,
   notes |-> IF v = 1 THEN "notes1" ELSE "notes2",
   logoUrl |-> IF v = 1 THEN "logo1" ELSE "logo2",
   email |-> IF v = 1 THEN "a@x.org" ELSE "b@y.org",
   fullName |-> IF v = 1 THEN "Name One" ELSE "Name Two",
   full_name |-> IF v = 1 THEN "Name_One" ELSE "Name_Two",
   phone |-> IF v = 1 THEN "111" ELSE "222",
   resumeContent |-> IF v = 1 THEN "cv1" ELSE "cv2",
   resume_content |-> IF v = 1 THEN "cv_1" ELSE "cv_2",
   resumeFileName |-> IF v = 1 THEN "cv1.pdf" ELSE "cv2.pdf",
   resume_file_name |-> IF v = 1 THEN "cv_1.pdf" ELSE "cv_2.pdf",
   preferences |-> IF v = 1 THEN {<<"language", "en">>} ELSE {<<"language", "ar">>},
   connectedAccounts |-> IF v = 1 THEN <<"gmail1">> ELSE <<"gmail2">>,
   connected_accounts |-> IF v = 1 THEN <<"outlook1">> ELSE <<"outlook2">>,
   plan |-> IF v = 1 THEN "pro" ELSE "free",
   lat |-> 25,
   lng |-> 55,
   role |-> "Engineer"]

\* A request body: absent (req.body undefined), or an object with some fields supplied.
NoBody == [present |-> FALSE, supplied |-> {}, id |-> None, ver |-> 0]
MkBody(id, sup, v) == [present |-> TRUE, supplied |-> sup, id |-> id, ver |-> v]

JobBodies ==
  {NoBody, MkBody(None, JobFields \ {"id"}, 1),
   MkBody("j1", JobFields, 1), MkBody("j1", JobFields, 2), MkBody("j1", {"id"}, 0),
   MkBody("j2", JobFields, 1)}

ProfileBodies ==
  {NoBody,
   MkBody("user_B", {"id", "email", "fullName", "phone", "resumeContent", "resumeFileName",
                     "preferences", "connectedAccounts", "plan"}, 1),
   MkBody(None, {"email", "full_name", "resume_content", "resume_file_name",
                 "connected_accounts"}, 2)}

NearbyBodies ==
  {NoBody, MkBody(None, NearbyFields, 1), MkBody(None, {"lat", "lng"}, 1),
   MkBody(None, {"role"}, 1), MkBody(None, {"lat", "role"}, 1)}

\* body.f for a supplied field
Val(body, f) == FieldVals(body.ver)[f]
\* `body.f || d` for a string field: undefined, null and '' are falsy
OrStr(body, f, d) ==
  IF f \in body.supplied /\ Val(body, f) \notin {"", Null} THEN Val(body, f) ELSE d
\* `body.f || d` for a numeric field: undefined and 0 are falsy
OrNum(body, f, d) ==
  IF f \in body.supplied /\ Val(body, f) # 0 THEN Val(body, f) ELSE d
\* `body.f || d` for an array field: every array is truthy
OrList(body, f, d) == IF f \in body.supplied THEN Val(body, f) ELSE d
\* `body.f || body.g || d` for string fields
Or2Str(body, f, g, d) == OrStr(body, f, OrStr(body, g, d))
\* `body.f || body.g || d` for array fields
Or2List(body, f, g, d) == OrList(body, f, OrList(body, g, d))
\* `body.f || d` for an object field: every object is truthy
OrObj(body, f, d) == IF f \in body.supplied THEN Val(body, f) ELSE d
\* JSON.stringify(x) as the JSON text stored in a column, and the document a
\* row read hands back for that column
jsonStringify(x) == [json |-> x]
jsonParse(t) == t.json
\* `${body.f}` as a statement parameter: undefined is sent as NULL
Param(body, f) == IF f \in body.supplied THEN Val(body, f) ELSE Null


(***************************************************************************)
(* Requests.                                                               *)
(***************************************************************************)
Methods == {"GET", "POST", "DELETE", "OPTIONS", "PUT"}

\* req.headers.authorization: undefined, or a string seen as its first seven
\* characters (prefix) and the remainder (rest = authHeader.substring(7)).
NoHeader == [present |-> FALSE, prefix |-> "", rest |-> ""]
AuthHeaders ==
  {NoHeader,
   [present |-> TRUE, prefix |-> "Basic x", rest |-> "yz"],
   [present |-> TRUE, prefix |-> "Bearer ", rest |-> "tok"]}

\* Outcome of the fetch to the auth provider's verification endpoint.
ClerkId(a, b, c) == [sub |-> a, user_id |-> b, userId |-> c]
ClerkData ==
  {ClerkId("", "", ""), ClerkId("user_A", "", ""), ClerkId("", "user_B", ""),
   ClerkId("", "", "user_A"), ClerkId("user_B", "user_A", "user_A"),
   ClerkId("", "user_A", "user_B")}
NoData == [sub |-> "", user_id |-> "", userId |-> ""]
NoFetch == [kind |-> "nofetch", ok |-> FALSE, data |-> NoData]
ClerkResponses ==
  {[kind |-> "netfail", ok |-> FALSE, data |-> NoData]}
    \cup {[kind |-> "resp", ok |-> TRUE, data |-> d] : d \in ClerkData}
    \cup {[kind |-> "resp", ok |-> FALSE, data |-> d] :
             d \in {ClerkId("", "", ""), ClerkId("user_A", "", "")}}

(***************************************************************************)
(* State.                                                                  *)
(***************************************************************************)
VARIABLES
  nodeEnv,      \* process.env.NODE_ENV
  databaseUrl,  \* process.env.DATABASE_URL is set
  jobsSql,      \* module variable `sql` of api/jobs.ts
  profileSql,   \* module variable `sql` of the profile handler module
  jobs,         \* table jobs: id -> row
  profiles,     \* table profiles: id -> row
  clock,        \* database time, the value of NOW()
  inflight,     \* profile POSTs suspended between SELECT and INSERT/UPDATE
  last,         \* the request step just executed and its response
  served,       \* requests served so far (counted in specification Spec only)
  lastSaved     \* history: per user, the body of the latest profile POST answered 200

apiVars == <<nodeEnv, databaseUrl, jobsSql, profileSql, jobs, profiles, clock, inflight,
             last, served, lastSaved>>

\* The browser side: services/fileSystemService.ts in virtual mode.
VARIABLES
  storage,      \* window.localStorage: key -> string
  handles,      \* number of virtual directory handles handed out
  lastWrite,    \* history: per file name, the content of the latest write that returned true
  fsLast        \* the file-system call just made and its outcome

fsVars == <<storage, handles, lastWrite, fsLast>>

\* The browser side: services/githubService.ts, one syncJobsToGithub call at a time.
VARIABLES
  ghPc,         \* where the call stands: "idle", "get", "put" (awaiting that response), "done"
  ghCall,       \* the arguments of the call
  ghLog,        \* the requests sent and the responses received, in order
  ghResult      \* what the call returned, or that it raised

ghVars == <<ghPc, ghCall, ghLog, ghResult>>

\* The browser side: services/geminiService.ts, whose functions keep no state.
VARIABLES
  aiLast        \* the AI operation just called: its environment and what it returned

aiVars == <<aiLast>>

\* The URL cleaning helper of services/geminiService.ts, which keeps no state.
VARIABLES
  urlLast       \* the getSmartApplicationUrl call just made: input, output, and which pass

urlVars == <<urlLast>>

\* services/fileSystemService.ts in real mode: a directory the user has granted.
VARIABLES
  disk,         \* the files of the directory: name -> content
  unclosed,     \* names with a write stream that was opened and never closed
  realLast      \* the real-mode write just made and its outcome

realVars == <<disk, unclosed, realLast>>

\* The prompts generateCoverLetter and customizeResume of services/geminiService.ts build.
VARIABLES
  promptLast    \* the prompt just built: the company given and what fills the company slot

promptVars == <<promptLast>>

\* The client shell: the App component, its state and the calls it has running.
VARIABLES
  isLoaded,     \* useUser().isLoaded
  isSignedIn,   \* useUser().isSignedIn
  onLine,       \* navigator.onLine
  isOnline,     \* state isOnline
  loading,      \* state loading
  isSyncing,    \* state isSyncing
  userProfile,  \* state userProfile is not null
  notification, \* state notification
  appJobs,      \* state jobs: id -> the version listed, NotListed when the list has no such job
  serverJobs,   \* the jobs table behind fetchJobsFromDb, saveJobToDb, deleteJobFromDb
  syncCalls,    \* slot -> the syncData call running in it
  saves,        \* the local changes whose handler has not finished its awaits
  intended      \* history: id -> the latest local change whose save reached the server

appVars == <<isLoaded, isSignedIn, onLine, isOnline, loading, isSyncing, userProfile,
             notification, appJobs, serverJobs, syncCalls, saves, intended>>

clientVars == <<fsVars, ghVars, aiVars, urlVars, realVars, promptVars, appVars>>

vars == <<apiVars, clientVars>>

\* no write of the name has returned true yet
Unwritten == "unwritten"

NoHandle == 0
\* neon(process.env.DATABASE_URL): a new handle object at every call, told
\* apart by the number of handles the module held before it
neon(held) == held + 1
EmptyTable == [x \in {} |-> x]

\* no document in the response
NoDoc == [id |-> None]

\* What a step did and answered.  status 0: no response sent yet.
Step(ep, method, authHeader, authCase, userId, fetches, stmts, dbFault, aiCalls, status, cors, payload, error, body, jobId) ==
  [ep |-> ep, method |-> method, authHeader |-> authHeader,
   authCase |-> authCase, userId |-> userId,
   fetches |-> fetches, stmts |-> stmts, dbFault |-> dbFault, aiCalls |-> aiCalls,
   status |-> status, cors |-> cors, payload |-> payload, error |-> error,
   body |-> body, jobId |-> jobId, doc |-> NoDoc]

NoStep == Step("none", "none", NoHeader, "none", None, 0, 0, FALSE, 0, 0, FALSE, "none", "", NoBody, None)

(***************************************************************************)
(* Shared pieces of the jobs and profile handlers.                         *)
(***************************************************************************)
\* getSql throws 'DATABASE_URL is not set' (jobs.ts 6-10)
getSqlThrows(sql, urlSet) == sql = NoHandle /\ ~urlSet
\* getSql without the `if (!sql)` test
getSqlUncached(sql) == neon(sql)
\* value of the module variable after a getSql call that returned (jobs.ts 6-14)
getSql(sql) == IF sql = NoHandle THEN neon(NoHandle) ELSE sql

\* the bypass left on whatever NODE_ENV is
IsDevelopmentAlways(env) == TRUE
\* process.env.NODE_ENV === 'development'
IsDevelopment(env) == env = "development"

startsWithBearer(authHeader) == authHeader.present /\ authHeader.prefix = "Bearer "

\* data.sub || data.user_id || data.userId || null
firstId(data) ==
  IF data.sub # "" THEN data.sub
  ELSE IF data.user_id # "" THEN data.user_id
  ELSE IF data.userId # "" THEN data.userId
  ELSE None

\* verifyClerkToken without the `!response.ok` test
verifyClerkTokenNoOkCheck(authHeader, clerk) ==
  IF ~startsWithBearer(authHeader) THEN None
  ELSE IF clerk.kind # "resp" THEN None
  ELSE firstId(clerk.data)
\* verifyClerkToken: the verified user id, or None for null
verifyClerkToken(authHeader, clerk) ==
  IF ~startsWithBearer(authHeader) THEN None
  ELSE IF clerk.kind # "resp" THEN None
  ELSE IF ~clerk.ok THEN None
  ELSE firstId(clerk.data)

\* getUserIdFromClerkToken of the profile handler: same steps on req.headers.authorization
getUserIdFromClerkToken(authHeader, clerk) ==
  IF ~startsWithBearer(authHeader) THEN None
  ELSE IF clerk.kind # "resp" THEN None
  ELSE IF ~clerk.ok THEN None
  ELSE firstId(clerk.data)

\* Which way the request is (not) authenticated; recorded with the step.
AuthCase(env, authHeader, clerk) ==
  IF IsDevelopment(env) THEN "dev"
  ELSE IF ~authHeader.present THEN "absent"
  ELSE IF authHeader.prefix # "Bearer " THEN "malformed"
  ELSE IF clerk.kind = "netfail" THEN "netfail"
  ELSE IF ~clerk.ok THEN "nonok"
  ELSE IF clerk.data = NoData THEN "noid"
  ELSE "ok"

\* The auth-provider responses a request can meet: none when no fetch is made.
ClerkFor(env, authHeader) ==
  IF IsDevelopment(env) \/ ~startsWithBearer(authHeader) THEN {NoFetch} ELSE ClerkResponses

\* Whether the statement a request sends succeeds; no statement without a user id.
DbOutcomesFor(env, authHeader, clerk) ==
  IF AuthCase(env, authHeader, clerk) \in {"dev", "ok"} THEN BOOLEAN ELSE {TRUE}

(***************************************************************************)
(* jobs table and the statements of api/jobs.ts.                           *)
(***************************************************************************)
\* JSON.stringify({location, salaryRange, requirements, notes, logoUrl}) as stored in data
jobData(body) ==
  jsonStringify(
    [location |-> OrStr(body, "location", ""),
     salaryRange |-> OrStr(body, "salaryRange", ""),
     requirements |-> OrList(body, "requirements", <<>>),
     notes |-> OrStr(body, "notes", ""),
     logoUrl |-> OrStr(body, "logoUrl", "")])

\* VALUES (...) of the INSERT
insertedJobRow(body, userId, now) ==
  [user_id |-> userId,
   title |-> Param(body, "title"),
   company |-> Param(body, "company"),
   description |-> OrStr(body, "description", ""),
   status |-> OrStr(body, "status", "Detected"),
   source |-> OrStr(body, "source", "Manual"),
   application_url |-> OrStr(body, "applicationUrl", Null),
   custom_resume |-> OrStr(body, "customizedResume", Null),
   cover_letter |-> OrStr(body, "coverLetter", Null),
   match_score |-> OrNum(body, "matchScore", 0),
   data |-> jobData(body),
   created_at |-> now,
   updated_at |-> now]

\* a conflict update that also takes created_at from EXCLUDED
conflictUpdatedJobRowRecreated(row, excluded, now) ==
  [row EXCEPT !.title = excluded.title,
              !.company = excluded.company,
              !.description = excluded.description,
              !.status = excluded.status,
              !.custom_resume = excluded.custom_resume,
              !.cover_letter = excluded.cover_letter,
              !.data = excluded.data,
              !.created_at = excluded.created_at,
              !.updated_at = now]
\* ON CONFLICT (id) DO UPDATE SET ... : the columns taken from EXCLUDED
conflictUpdatedJobRow(row, excluded, now) ==
  [row EXCEPT !.title = excluded.title,
              !.company = excluded.company,
              !.description = excluded.description,
              !.status = excluded.status,
              !.custom_resume = excluded.custom_resume,
              !.cover_letter = excluded.cover_letter,
              !.data = excluded.data,
              !.updated_at = now]

\* INSERT INTO jobs ... ON CONFLICT (id) DO UPDATE ...: the table afterwards
upsertJob(tbl, body, userId, now) ==
  LET new == insertedJobRow(body, userId, now) IN
  IF body.id \in DOMAIN tbl
    THEN [tbl EXCEPT ![body.id] = conflictUpdatedJobRow(@, new, now)]
    ELSE [x \in DOMAIN tbl \cup {body.id} |-> IF x = body.id THEN new ELSE tbl[x]]

\* the DELETE without `AND user_id = ...`
deleteJobAnyOwner(tbl, jobId, userId) ==
  [x \in {y \in DOMAIN tbl : y # jobId} |-> tbl[x]]
\* DELETE FROM jobs WHERE id = jobId AND user_id = userId
deleteJob(tbl, jobId, userId) ==
  [x \in {y \in DOMAIN tbl : ~(y = jobId /\ tbl[y].user_id = userId)} |-> tbl[x]]

\* SELECT * FROM jobs WHERE user_id = userId ORDER BY created_at DESC: the ids in order
selectJobs(tbl, userId) ==
  LET own == {x \in DOMAIN tbl : tbl[x].user_id = userId}
      n == Cardinality(own)
  IN CHOOSE s \in [1..n -> own] :
       /\ \A i, j \in 1..n : i # j => s[i] # s[j]
       /\ \A i, j \in 1..n : i < j => tbl[s[i]].created_at >= tbl[s[j]].created_at

\* `v || d` on a column value
ColOr(v, d) == IF v \in {Null, ""} THEN d ELSE v

\* result.map(job => ({...})): the external Job document of a row
jobDocument(id, row) ==
  [id |-> id,
   title |-> ColOr(row.title, ""),
   company |-> ColOr(row.company, ""),
   location |-> ColOr(jsonParse(row.data).location, ""),
   salaryRange |-> ColOr(jsonParse(row.data).salaryRange, ""),
   description |-> ColOr(row.description, ""),
   source |-> ColOr(row.source, "Manual"),
   detectedAt |-> row.created_at,
   status |-> ColOr(row.status, "Detected"),
   matchScore |-> row.match_score,
   requirements |-> jsonParse(row.data).requirements,
   coverLetter |-> row.cover_letter,
   customizedResume |-> row.custom_resume,
   notes |-> ColOr(jsonParse(row.data).notes, ""),
   logoUrl |-> ColOr(jsonParse(row.data).logoUrl, ""),
   applicationUrl |-> row.application_url]

\* the `jobs` array of a GET response for userId
listJobs(tbl, userId) ==
  LET ids == selectJobs(tbl, userId) IN
  [i \in 1..Len(ids) |-> jobDocument(ids[i], tbl[ids[i]])]

\* the validation without `!body.id`
invalidJobPayloadBodyOnly(body) == ~body.present
\* !body || !body.id
invalidJobPayload(body) == ~body.present \/ "id" \notin body.supplied \/ body.id \in {"", None}

\* !jobId for req.query.id
missingJobId(jobId) == jobId \in {"", None}

\* the DELETE branch taken as the final else
jobsRouteElseDelete(method) ==
  IF method = "GET" THEN "GET" ELSE IF method = "POST" THEN "POST" ELSE "DELETE"
\* the branch of the jobs handler a verb is served by
jobsRoute(method) ==
  IF method \in {"GET", "POST", "DELETE"} THEN method ELSE "405"


(***************************************************************************)
(* The jobs handler (api/jobs.ts 46-158), one request per step.            *)
(***************************************************************************)
\* res.setHeader(...) x4 at the top of the jobs and profile handlers
corsHeadersSet == TRUE

jobsHandler(method, authHeader, clerk, body, jobId, dbOk) ==
  LET userId == IF IsDevelopment(nodeEnv) THEN DevUser
                ELSE verifyClerkToken(authHeader, clerk)
      fetches == IF clerk.kind = "nofetch" THEN 0 ELSE 1
      case == AuthCase(nodeEnv, authHeader, clerk)
      route == jobsRoute(method)
      \* a step that answers without running a statement
      Answer(uid, f, status, payload, error) ==
        Step("jobs", method, authHeader, IF method = "OPTIONS" THEN "none" ELSE case, uid, f,
             0, FALSE, 0, status, corsHeadersSet, payload, error, body, jobId)
      \* a step that ran one statement
      Ran(fault, status, payload, error) ==
        Step("jobs", method, authHeader, case, userId, fetches,
             1, fault, 0, status, corsHeadersSet, payload, error, body, jobId)
  IN
  IF method = "OPTIONS" THEN
    /\ last' = Answer(None, 0, 200, "none", "")
    /\ UNCHANGED <<jobsSql, jobs, clock>>
  ELSE IF userId = None THEN
    /\ last' = Answer(None, fetches, 401, "json", "Unauthorized")
    /\ UNCHANGED <<jobsSql, jobs, clock>>
  ELSE IF getSqlThrows(jobsSql, databaseUrl) THEN
    /\ last' = Answer(userId, fetches, 500, "json", "Internal Server Error")
    /\ UNCHANGED <<jobsSql, jobs, clock>>
  ELSE
    /\ jobsSql' = getSql(jobsSql)
    /\ IF route = "GET" THEN
         /\ last' = IF dbOk THEN Ran(FALSE, 200, "jobs", "")
                    ELSE Ran(TRUE, 500, "json", "Internal Server Error")
         /\ UNCHANGED <<jobs, clock>>
       ELSE IF route = "POST" THEN
         IF invalidJobPayload(body) THEN
           /\ last' = Answer(userId, fetches, 400, "json", "Invalid Job Payload")
           /\ UNCHANGED <<jobs, clock>>
         ELSE IF ~dbOk \/ body.id \notin JobIds THEN
           \* the statement fails: database error, or a NULL primary key
           /\ last' = Ran(dbOk, 500, "json", "Internal Server Error")
           /\ UNCHANGED <<jobs, clock>>
         ELSE
           /\ clock < MaxClock
           /\ jobs' = upsertJob(jobs, body, userId, clock)
           /\ clock' = clock + 1
           /\ last' = Ran(FALSE, 200, "job", "")
       ELSE IF route = "DELETE" THEN
         IF missingJobId(jobId) THEN
           /\ last' = Answer(userId, fetches, 400, "json", "Missing Job ID")
           /\ UNCHANGED <<jobs, clock>>
         ELSE IF ~dbOk THEN
           /\ last' = Ran(TRUE, 500, "json", "Internal Server Error")
           /\ UNCHANGED <<jobs, clock>>
         ELSE
           /\ jobs' = deleteJob(jobs, jobId, userId)
           /\ last' = Ran(FALSE, 200, "success", "")
           /\ UNCHANGED clock
       ELSE
         /\ last' = Answer(userId, fetches, 405, "json", "Method Not Allowed")
         /\ UNCHANGED <<jobs, clock>>

\* The inputs a verb reads: a body for POST, a query id otherwise.
JobBodiesFor(method) == IF method = "POST" THEN JobBodies ELSE {NoBody}
JobIdsFor(method) ==
  IF method = "DELETE" THEN JobIds \cup {None} ELSE IF method = "PUT" THEN JobIds ELSE {None}

JobsRequest ==
  /\ \E method \in Methods, authHeader \in AuthHeaders :
       \E clerk \in ClerkFor(nodeEnv, authHeader) :
         \E body \in JobBodiesFor(method), jobId \in JobIdsFor(method),
            dbOk \in DbOutcomesFor(nodeEnv, authHeader, clerk) :
           jobsHandler(method, authHeader, clerk, body, jobId, dbOk)
  /\ UNCHANGED <<nodeEnv, databaseUrl, profileSql, profiles, inflight, lastSaved>>

\* The requests of signed-in sessions against a healthy deployment: GET,
\* POST and DELETE carrying a token the auth provider accepts.
BearerToken == [present |-> TRUE, prefix |-> "Bearer ", rest |-> "tok"]
SessionClerks ==
  {[kind |-> "resp", ok |-> TRUE, data |-> d] :
     d \in {ClerkId("user_A", "", ""), ClerkId("", "user_B", "")}}
SessionBodiesFor(method) ==
  IF method = "POST"
    THEN {MkBody("j1", JobFields, 1), MkBody("j1", JobFields, 2), MkBody("j2", JobFields, 1)}
    ELSE {NoBody}
SessionIdsFor(method) == IF method = "DELETE" THEN JobIds ELSE {None}

JobsSessionRequest ==
  /\ \E method \in {"GET", "POST", "DELETE"}, clerk \in SessionClerks :
       \E body \in SessionBodiesFor(method), jobId \in SessionIdsFor(method) :
         jobsHandler(method, BearerToken, clerk, body, jobId, TRUE)
  /\ UNCHANGED <<nodeEnv, databaseUrl, profileSql, profiles, inflight, lastSaved>>

(***************************************************************************)
(* profiles table and the statements of the profile handler.               *)
(***************************************************************************)
\* the columns both the INSERT and the UPDATE write
profileColumns(body, now) ==
  [email |-> Param(body, "email"),
   full_name |-> Or2Str(body, "fullName", "full_name", ""),
   phone |-> OrStr(body, "phone", ""),
   resume_content |-> Or2Str(body, "resumeContent", "resume_content", ""),
   resume_file_name |-> Or2Str(body, "resumeFileName", "resume_file_name", ""),
   preferences |-> jsonStringify(OrObj(body, "preferences", {})),
   connected_accounts |->
     jsonStringify(Or2List(body, "connectedAccounts", "connected_accounts", <<>>)),
   plan |-> OrStr(body, "plan", "free"),
   updated_at |-> now]

\* SELECT id FROM profiles WHERE id = userId: existing.length
selectProfile(tbl, userId) == IF userId \in DOMAIN tbl THEN 1 ELSE 0

\* profiles.id is the primary key: an INSERT of a stored id is rejected
uniqueViolation(tbl, userId) == userId \in DOMAIN tbl

\* the INSERT with the id taken from the body when the body carries one
insertProfileBodyId(tbl, body, userId, now) ==
  LET id == IF "id" \in body.supplied THEN body.id ELSE userId IN
  [x \in DOMAIN tbl \cup {id} |-> IF x = id THEN profileColumns(body, now) ELSE tbl[x]]

\* INSERT INTO profiles (id, ...) VALUES (userId, ...): the table afterwards
insertProfile(tbl, body, userId, now) ==
  [x \in DOMAIN tbl \cup {userId} |-> IF x = userId THEN profileColumns(body, now) ELSE tbl[x]]

\* UPDATE profiles SET ... WHERE id = userId: the table afterwards
updateProfile(tbl, body, userId, now) ==
  [x \in DOMAIN tbl |-> IF x = userId THEN profileColumns(body, now) ELSE tbl[x]]

\* the document of a GET response
profileDocument(id, row) ==
  [id |-> id,
   fullName |-> row.full_name,
   email |-> row.email,
   phone |-> ColOr(row.phone, ""),
   resumeContent |-> row.resume_content,
   resumeFileName |-> ColOr(row.resume_file_name, ""),
   preferences |-> jsonParse(row.preferences),
   connectedAccounts |-> jsonParse(row.connected_accounts),
   plan |-> ColOr(row.plan, "free"),
   onboardedAt |-> row.updated_at]

\* error.message || 'Internal server error' of the profile handler's catch
profileErrorBody(message) == IF message = "" THEN "Internal server error" ELSE message

DatabaseUrlMessage == "DATABASE_URL is not set"
DatabaseErrorMessage == "connection terminated unexpectedly"
DuplicateKeyMessage == "duplicate key value violates unique constraint"
TypeErrorMessage == "Cannot read properties of undefined"

NoEntry == [userId |-> None, body |-> NoBody, existing |-> 0, authCase |-> "none"]
BusySlots == {s \in Slots : inflight[s] # NoEntry}
FreeSlots == Slots \ BusySlots

(***************************************************************************)
(* The profile handler (unnamed/part_000 47-179).  A POST that reaches its *)
(* SELECT is suspended in a slot and finished by ProfilePostComplete.      *)
(***************************************************************************)
profileHandler(method, authHeader, clerk, body, dbOk) ==
  LET userId == IF IsDevelopment(nodeEnv) THEN DevUser
                ELSE getUserIdFromClerkToken(authHeader, clerk)
      fetches == IF clerk.kind = "nofetch" THEN 0 ELSE 1
      case == AuthCase(nodeEnv, authHeader, clerk)
      Answer(uid, f, status, payload, error) ==
        Step("profile", method, authHeader, IF method = "OPTIONS" THEN "none" ELSE case, uid, f,
             0, FALSE, 0, status, corsHeadersSet, payload, error, body, None)
      Ran(fault, status, payload, error) ==
        Step("profile", method, authHeader, case, userId, fetches,
             1, fault, 0, status, corsHeadersSet, payload, error, body, None)
  IN
  IF method = "OPTIONS" THEN
    /\ last' = Answer(None, 0, 200, "none", "")
    /\ UNCHANGED <<profileSql, inflight>>
  ELSE IF userId = None THEN
    /\ last' = Answer(None, fetches, 401, "json", "Unauthorized")
    /\ UNCHANGED <<profileSql, inflight>>
  ELSE IF getSqlThrows(profileSql, databaseUrl) THEN
    /\ last' = Answer(userId, fetches, 500, "json", profileErrorBody(DatabaseUrlMessage))
    /\ UNCHANGED <<profileSql, inflight>>
  ELSE
    /\ profileSql' = getSql(profileSql)
    /\ IF method = "GET" THEN
         /\ last' = IF ~dbOk THEN Ran(TRUE, 500, "json", profileErrorBody(DatabaseErrorMessage))
                    ELSE IF selectProfile(profiles, userId) = 0
                      THEN Ran(FALSE, 404, "json", "Profile not found")
                      ELSE [Ran(FALSE, 200, "profile", "") EXCEPT
                              !.doc = profileDocument(userId, profiles[userId])]
         /\ UNCHANGED inflight
       ELSE IF method = "POST" THEN
         IF ~dbOk THEN
           /\ last' = Ran(TRUE, 500, "json", profileErrorBody(DatabaseErrorMessage))
           /\ UNCHANGED inflight
         ELSE
           \* suspended at the await of the INSERT / UPDATE
           /\ FreeSlots # {}
           /\ clock + Cardinality(BusySlots) < MaxClock
           /\ LET s == CHOOSE x \in FreeSlots : \A y \in FreeSlots : x <= y IN
              inflight' = [inflight EXCEPT ![s] =
                             [userId |-> userId, body |-> body,
                              existing |-> selectProfile(profiles, userId),
                              authCase |-> case]]
           /\ last' = Ran(FALSE, 0, "none", "")
       ELSE
         /\ last' = Answer(userId, fetches, 405, "json", "Method not allowed")
         /\ UNCHANGED inflight

ProfileBodiesFor(method) == IF method = "POST" THEN ProfileBodies ELSE {NoBody}

ProfileRequest ==
  /\ \E method \in Methods, authHeader \in AuthHeaders :
       \E clerk \in ClerkFor(nodeEnv, authHeader) :
         \E body \in ProfileBodiesFor(method),
            dbOk \in DbOutcomesFor(nodeEnv, authHeader, clerk) :
           profileHandler(method, authHeader, clerk, body, dbOk)
  /\ UNCHANGED <<nodeEnv, databaseUrl, jobsSql, jobs, profiles, clock, lastSaved>>

\* The second half of a POST: the INSERT (existing.length === 0) or the UPDATE.
profilePostComplete(s, dbOk) ==
  LET e == inflight[s]
      Done(stmts, fault, status, payload, error) ==
        Step("profile", "POST", NoHeader, e.authCase, e.userId, 0,
             stmts, fault, 0, status, corsHeadersSet, payload, error, e.body, None)
  IN
  /\ e # NoEntry
  /\ inflight' = [inflight EXCEPT ![s] = NoEntry]
  /\ IF ~e.body.present THEN
       \* body.email of an undefined body throws before the statement is sent
       /\ last' = Done(0, FALSE, 500, "json", profileErrorBody(TypeErrorMessage))
       /\ UNCHANGED <<profiles, clock, lastSaved>>
     ELSE IF ~dbOk THEN
       /\ last' = Done(1, TRUE, 500, "json", profileErrorBody(DatabaseErrorMessage))
       /\ UNCHANGED <<profiles, clock, lastSaved>>
     ELSE IF e.existing = 0 THEN
       IF uniqueViolation(profiles, e.userId) THEN
         /\ last' = Done(1, FALSE, 500, "json", profileErrorBody(DuplicateKeyMessage))
         /\ UNCHANGED <<profiles, clock, lastSaved>>
       ELSE
         /\ clock < MaxClock
         /\ profiles' = insertProfile(profiles, e.body, e.userId, clock)
         /\ clock' = clock + 1
         /\ lastSaved' = [lastSaved EXCEPT ![e.userId] = e.body]
         /\ last' = Done(1, FALSE, 200, "profile", "")
     ELSE
       IF e.userId \notin DOMAIN profiles THEN
         \* result[0] is undefined: saved.id throws
         /\ last' = Done(1, FALSE, 500, "json", profileErrorBody(TypeErrorMessage))
         /\ UNCHANGED <<profiles, clock, lastSaved>>
       ELSE
         /\ clock < MaxClock
         /\ profiles' = updateProfile(profiles, e.body, e.userId, clock)
         /\ clock' = clock + 1
         /\ lastSaved' = [lastSaved EXCEPT ![e.userId] = e.body]
         /\ last' = Done(1, FALSE, 200, "profile", "")

ProfilePostComplete ==
  /\ \E s \in Slots, dbOk \in BOOLEAN : profilePostComplete(s, dbOk)
  /\ UNCHANGED <<nodeEnv, databaseUrl, jobsSql, profileSql, jobs>>

(***************************************************************************)
(* The nearby-search handler (api/search-nearby.ts 6-54).                  *)
(***************************************************************************)
\* the handler sets no header before it answers
nearbyCorsHeadersSet == FALSE

\* Clerk.getAuth(req).userId: the session's user, or none
NearbySessions == Users \cup {None}

\* !lat || !lng
missingCoordinates(body) ==
  OrNum(body, "lat", 0) = 0 \/ OrNum(body, "lng", 0) = 0

searchNearbyHandler(method, session, body, aiOk) ==
  LET Answer(case, uid, ai, status, error, payload) ==
        Step("nearby", method, NoHeader, case, uid, 0, 0, FALSE, ai, status,
             nearbyCorsHeadersSet, payload, error, body, None)
      case == IF session = None THEN "nosession" ELSE "session"
  IN
  last' =
    IF method # "POST" THEN Answer("none", None, 0, 405, "Method Not Allowed", "json")
    ELSE IF session = None THEN Answer(case, None, 0, 401, "Unauthorized", "json")
    ELSE IF ~body.present THEN Answer(case, session, 0, 500, "Internal Server Error", "json")
    ELSE IF missingCoordinates(body) THEN Answer(case, session, 0, 400, "Missing coordinates", "json")
    ELSE IF ~aiOk THEN Answer(case, session, 1, 500, "Internal Server Error", "json")
    ELSE Answer(case, session, 1, 200, "", "jobs")

NearbyBodiesFor(method) == IF method = "POST" THEN NearbyBodies ELSE {NoBody}

NearbyRequest ==
  /\ \E method \in Methods, session \in NearbySessions :
       \E body \in NearbyBodiesFor(method), aiOk \in BOOLEAN :
         searchNearbyHandler(method, session, body, aiOk)
  /\ UNCHANGED <<nodeEnv, databaseUrl, jobsSql, profileSql, jobs, profiles, clock, inflight,
                 lastSaved>>

(***************************************************************************)
(* Virtual file storage (services/fileSystemService.ts).                   *)
(***************************************************************************)
SAMPLE_JOBS_TXT ==
  "https://www.linkedin.com/jobs/view/senior-react-developer-123\nhttps://www.indeed.com/viewjob?jk=react-frontend-456\nhttps://weworkremotely.com/remote-jobs/full-stack-engineer\n"

\* file names and contents the callers use; "" is the empty string
FileNames == {"jobs.txt", "resume.txt"}
Contents == {"", "text1", "text2"}

\* `virtual_${filename}`
virtualKey(filename) == <<"virtual_", filename>>

\* localStorage.getItem(key): the string, or null
getItem(store, key) == IF key \in DOMAIN store THEN store[key] ELSE Null

\* localStorage.setItem(key, value) that the store accepts
setItem(store, key, value) ==
  [k \in DOMAIN store \cup {key} |-> IF k = key THEN value ELSE store[k]]

\* !value of a string or null
falsy(value) == value = Null \/ value = ""

\* an Error's message: a fixed text and the value interpolated after it
Message(text, arg) == [text |-> text, arg |-> arg]
NoError == Message("", "")
QuotaMessage == Message("Quota exceeded in virtual storage.", "")
NotFoundMessage(filename) == Message("File not found in virtual workspace: ", filename)
\* what localStorage.setItem throws when the store rejects the value
StoreRejects == Message("QuotaExceededError", "")

FsCall(op, filename, content, rejected, ok, result, error) ==
  [op |-> op, filename |-> filename, content |-> content, rejected |-> rejected,
   ok |-> ok, result |-> result, error |-> error]

NoFsCall == FsCall("none", None, Null, FALSE, FALSE, Null, NoError)

\* createVirtualDirectory: seeds jobs.txt when getItem is falsy; a setItem the
\* store rejects throws out of the constructor and no handle is returned
createVirtualDirectory(rejected) ==
  LET key == virtualKey("jobs.txt")
      seeds == falsy(getItem(storage, key))
  IN
  IF seeds /\ rejected THEN
    /\ fsLast' = FsCall("createVirtualDirectory", None, Null, TRUE, FALSE, Null, StoreRejects)
    /\ UNCHANGED <<storage, handles>>
  ELSE
    /\ handles < MaxHandles
    /\ storage' = IF seeds THEN setItem(storage, key, SAMPLE_JOBS_TXT) ELSE storage
    /\ handles' = handles + 1
    /\ fsLast' = FsCall("createVirtualDirectory", None, Null, FALSE, TRUE, Null, NoError)

CreateVirtualDirectory ==
  /\ \E rejected \in BOOLEAN : createVirtualDirectory(rejected)
  /\ UNCHANGED lastWrite

\* the store after writeFileToDirectory's setItem, which the store may reject
writeVirtualClearing(store, filename, content, rejected) ==
  IF rejected THEN [k \in DOMAIN store \ {virtualKey(filename)} |-> store[k]]
  ELSE setItem(store, virtualKey(filename), content)

writeVirtual(store, filename, content, rejected) ==
  IF rejected THEN store ELSE setItem(store, virtualKey(filename), content)

\* writeFileToDirectory(dirHandle, filename, content) with dirHandle.isVirtual
writeFileToDirectory(filename, content, rejected) ==
  /\ handles > 0
  /\ storage' = writeVirtual(storage, filename, content, rejected)
  /\ fsLast' = IF rejected
                 THEN FsCall("writeFileToDirectory", filename, content, TRUE, FALSE, Null, QuotaMessage)
                 ELSE FsCall("writeFileToDirectory", filename, content, FALSE, TRUE, Null, NoError)
  /\ lastWrite' = IF rejected THEN lastWrite ELSE [lastWrite EXCEPT ![filename] = content]
  /\ UNCHANGED handles

WriteFileToDirectory ==
  \E filename \in FileNames, content \in Contents, rejected \in BOOLEAN :
    writeFileToDirectory(filename, content, rejected)

\* the check left out: a missing entry is returned as content
notFoundNever(content) == FALSE

\* content === null
notFound(content) == content = Null

\* readFileFromDirectory(dirHandle, filename) with dirHandle.isVirtual
readFileFromDirectory(filename) ==
  LET content == getItem(storage, virtualKey(filename)) IN
  /\ handles > 0
  /\ fsLast' = IF notFound(content)
                 THEN FsCall("readFileFromDirectory", filename, Null, FALSE, FALSE, Null,
                             NotFoundMessage(filename))
                 ELSE FsCall("readFileFromDirectory", filename, Null, FALSE, TRUE, content, NoError)
  /\ UNCHANGED <<storage, handles, lastWrite>>

ReadFileFromDirectory ==
  \E filename \in FileNames : readFileFromDirectory(filename)

(***************************************************************************)
(* GitHub backup (services/githubService.ts).  A string is the sequence of *)
(* its characters.                                                         *)
(***************************************************************************)
\* repository strings: "o/r", "or", "/r", "o/", "o/r/x", "", "/"
Repos ==
  {<<"o", "/", "r">>, <<"o", "r">>, <<"/", "r">>, <<"o", "/">>,
   <<"o", "/", "r", "/", "x">>, <<>>, <<"/">>}

\* the jobs lists handed to the backup
JobLists == {<<>>, <<"j1", "j2">>}

RECURSIVE split(_, _)
\* str.split(sep) for a one-character separator: always at least one segment
split(str, sep) ==
  IF \A i \in 1..Len(str) : str[i] # sep THEN <<str>>
  ELSE LET i == CHOOSE k \in 1..Len(str) : str[k] = sep /\ \A m \in 1..(k - 1) : str[m] # sep
       IN <<SubSeq(str, 1, i - 1)>> \o split(SubSeq(str, i + 1, Len(str)), sep)

\* const [owner, repoName] = segments: a missing element is undefined
element(segments, i) == IF i <= Len(segments) THEN segments[i] ELSE Null

\* !x of a string or undefined
emptyOrUndefined(x) == x = Null \/ x = <<>>

\* !owner || !repoName
invalidRepo(repo) ==
  LET segments == split(repo, "/") IN
  emptyOrUndefined(element(segments, 1)) \/ emptyOrUndefined(element(segments, 2))

jobsPath == "data/jobs_backup.json"
NoSha == "undefined"

InvalidRepoMessage == Message("Invalid repository format. Use 'username/repo'.", "")
SyncedMessage == Message("Successfully committed Jobs backup to GitHub.", "")
FailedToSync(path) == Message("Failed to sync ", path)
SyncFailedMessage == Message("GitHub Sync Failed", "")
BadCredentials == Message("Bad credentials", "")
FailedToFetch == Message("Failed to fetch", "")
JsonSyntaxError == Message("Unexpected token < in JSON at position 0", "")
HtmlUrlTypeError == Message("Cannot read properties of undefined (reading 'html_url')", "")

\* a || b of two messages
OrMessage(a, b) == IF a = NoError THEN b ELSE a

\* What a fetch ends in: a network error (fetch rejects), or a response with
\* its status and what res.json() gives: "object" with the fields that matter,
\* or "invalid" when the body is not JSON.
FetchOutcome(kind, status, json, sha, message, content) ==
  [kind |-> kind, status |-> status, json |-> json, sha |-> sha, message |-> message,
   content |-> content]

NetworkError(message) == FetchOutcome("error", 0, "none", NoSha, message, FALSE)

\* res.ok
ok(res) == res.kind = "response" /\ res.status \in 200..299

GetOutcomes ==
  {NetworkError(FailedToFetch),
   FetchOutcome("response", 200, "object", "sha1", NoError, TRUE),
   FetchOutcome("response", 200, "object", NoSha, NoError, TRUE),
   FetchOutcome("response", 404, "object", NoSha, Message("Not Found", ""), FALSE),
   FetchOutcome("response", 500, "invalid", NoSha, NoError, FALSE)}

PutOutcomes ==
  {NetworkError(FailedToFetch), NetworkError(NoError),
   FetchOutcome("response", 201, "object", "sha2", NoError, TRUE),
   FetchOutcome("response", 200, "object", NoSha, NoError, FALSE),
   FetchOutcome("response", 401, "object", NoSha, BadCredentials, FALSE),
   FetchOutcome("response", 422, "object", NoSha, NoError, FALSE),
   FetchOutcome("response", 502, "invalid", NoSha, NoError, FALSE)}

\* a request as the network sees it
Request(method, repo, path, sha, content) ==
  [ev |-> "request", method |-> method, repo |-> repo, path |-> path, sha |-> sha,
   content |-> content]

Received(res) == [ev |-> "response", res |-> res]

NoCall == [repo |-> <<>>, jobs |-> <<>>]
NoResult == [returned |-> FALSE, success |-> FALSE, message |-> NoError]
Result(success, message) == [returned |-> TRUE, success |-> success, message |-> message]

\* the catch of syncJobsToGithub
syncFailure(message) == Result(FALSE, OrMessage(message, SyncFailedMessage))

\* syncJobsToGithub up to its first await: the format check, then commitFile's GET
syncJobsToGithub(repo, jobList) ==
  /\ ghPc \in {"idle", "done"}
  /\ ghCall' = [repo |-> repo, jobs |-> jobList]
  /\ IF invalidRepo(repo) THEN
       /\ ghLog' = <<>>
       /\ ghResult' = syncFailure(InvalidRepoMessage)
       /\ ghPc' = "done"
     ELSE
       /\ ghLog' = <<Request("GET", repo, jobsPath, NoSha, Null)>>
       /\ ghResult' = NoResult
       /\ ghPc' = "get"

SyncJobsToGithub ==
  \E repo \in Repos, jobList \in JobLists : syncJobsToGithub(repo, jobList)

\* sha is left undefined
existingShaNever(getRes) == NoSha

\* if (getRes.ok) { data = await getRes.json(); sha = data.sha }, inside try
existingSha(getRes) ==
  IF ok(getRes) /\ getRes.json = "object" THEN getRes.sha ELSE NoSha

\* btoa(unescape(encodeURIComponent(JSON.stringify(jobs, null, 2))))
encodedContent(jobList) == [base64 |-> [json |-> jobList]]

\* commitFile when the GET settles: whatever it ends in, the PUT is sent
commitFileAfterGet(getRes) ==
  /\ ghPc = "get"
  /\ ghLog' = ghLog \o <<Received(getRes),
                          Request("PUT", ghCall.repo, jobsPath, existingSha(getRes),
                                  encodedContent(ghCall.jobs))>>
  /\ ghPc' = "put"
  /\ UNCHANGED <<ghCall, ghResult>>

CommitFileAfterGet == \E getRes \in GetOutcomes : commitFileAfterGet(getRes)

\* what commitFile throws once the PUT has settled, NoError when it returns
commitFileThrows(res) ==
  IF res.kind = "error" THEN res.message
  ELSE IF ~ok(res) THEN
    IF res.json = "invalid" THEN JsonSyntaxError
    ELSE OrMessage(res.message, FailedToSync(jobsPath))
  ELSE IF res.json = "invalid" THEN JsonSyntaxError
  ELSE IF ~res.content THEN HtmlUrlTypeError
  ELSE NoError

\* commitFile when the PUT settles, and the return of syncJobsToGithub
commitFileAfterPut(res) ==
  /\ ghPc = "put"
  /\ ghLog' = ghLog \o <<Received(res)>>
  /\ ghResult' = IF res.kind = "response" /\ commitFileThrows(res) = NoError
                   THEN Result(TRUE, SyncedMessage)
                   ELSE syncFailure(commitFileThrows(res))
  /\ ghPc' = "done"
  /\ UNCHANGED ghCall

CommitFileAfterPut == \E res \in PutOutcomes : commitFileAfterPut(res)

(***************************************************************************)
(* AI operations (services/geminiService.ts).  The SDK call either throws, *)
(* or resolves without a usable response, or resolves with a reply text.   *)
(***************************************************************************)
ModelCalls == {"throws", "noResponse", "text"}

ApiKeyMessage == "GOOGLE_GENERATIVE_AI_API_KEY not set"
ModelErrorMessage == "fetch failed"
NoResponseMessage == "Cannot read properties of undefined (reading 'text')"

\* error.message of what the try block throws before a reply text is in hand
thrownMessage(apiKey, call) ==
  IF ~apiKey THEN ApiKeyMessage
  ELSE IF call = "throws" THEN ModelErrorMessage
  ELSE NoResponseMessage

\* no reply text is in hand: control is in the outer catch
failsBeforeReply(apiKey, call) == ~apiKey \/ call # "text"

\* how a call ended: with a value, or with an exception raised to the caller
Raised(message) == [kind |-> "raised", message |-> message]

AiCall(op, apiKey, call, reply, result) ==
  [op |-> op, apiKey |-> apiKey, call |-> call, reply |-> reply,
   returned |-> result.kind # "raised", result |-> result]

NoAiCall == AiCall("none", FALSE, "throws", <<>>, [kind |-> "none"])

\* how a try block ended
Throw(message) == [threw |-> TRUE, message |-> message, value |-> [kind |-> "none"]]
Return(value) == [threw |-> FALSE, message |-> "", value |-> value]

\* a try block without its catch
uncaught(block, handled) == IF block.threw THEN Raised(block.message) ELSE block.value

\* try { ... } catch { return handled }
caught(block, handled) == IF block.threw THEN handled ELSE block.value

\* the kinds of value an operation returns
TextResult(text) == [kind |-> "text", failed |-> FALSE, text |-> text]
ErrorText(prefix, message) == [kind |-> "text", failed |-> TRUE, text |-> <<prefix, message>>]
ListResult(items) == [kind |-> "list", items |-> items]
ScoreResult(n) == [kind |-> "score", score |-> n]
JobResult(failed, title) == [kind |-> "job", failed |-> failed, title |-> title]

\* generation replies: some text, or the empty string
GenerationReplies == {"Dear Hiring Manager", ""}

\* response.response.text() || ''
generated(reply) == TextResult(reply)

\* the try block of both generation operations
generation(apiKey, call, reply) ==
  IF failsBeforeReply(apiKey, call) THEN Throw(thrownMessage(apiKey, call))
  ELSE Return(generated(reply))

generateCoverLetter(apiKey, call, reply) ==
  LET block == generation(apiKey, call, reply) IN
  caught(block, ErrorText("Cover letter generation failed: ", block.message))

customizeResume(apiKey, call, reply) ==
  LET block == generation(apiKey, call, reply) IN
  caught(block, ErrorText("Resume customization failed: ", block.message))

\* A reply to a list prompt: the JSON value the text holds ("array", "object"
\* or "invalid" when it holds none), whether prose surrounds it, and the
\* items of an array (a job object with or without a title, or null).
ListReply(json, prose, items) == [json |-> json, prose |-> prose, items |-> items]
JobItem == [null |-> FALSE, title |-> "Engineer", company |-> "Acme"]
BareItem == [null |-> FALSE, title |-> "", company |-> ""]
NullItem == [null |-> TRUE, title |-> "", company |-> ""]

ListReplies ==
  {ListReply("array", FALSE, <<JobItem, BareItem>>), ListReply("array", FALSE, <<>>),
   ListReply("array", TRUE, <<JobItem>>), ListReply("array", FALSE, <<NullItem>>),
   ListReply("object", FALSE, <<>>), ListReply("invalid", TRUE, <<>>)}

\* text.match(/\[[\s\S]*\]/): the bracketed part of the text, if it has one
matchArray(reply) ==
  IF reply.json = "array" THEN [found |-> TRUE, text |-> ListReply("array", FALSE, reply.items)]
  ELSE [found |-> FALSE, text |-> reply]

\* JSON.parse(text): the value, or "throws"
parseJson(reply) ==
  IF reply.prose \/ reply.json = "invalid" THEN [threw |-> TRUE, isArray |-> FALSE, items |-> <<>>]
  ELSE [threw |-> FALSE, isArray |-> reply.json = "array", items |-> reply.items]

JsonErrorMessage == "Unexpected token in JSON"
NullItemMessage == "Cannot read properties of null (reading 'title')"

\* the inner try block of extractJobsFromEmailHtml
extractedJobs(reply) ==
  LET jsonMatch == matchArray(reply)
      parsed == parseJson(IF jsonMatch.found THEN jsonMatch.text ELSE reply)
  IN IF parsed.threw THEN Throw(JsonErrorMessage)
     ELSE Return(IF parsed.isArray THEN ListResult(parsed.items) ELSE ListResult(<<>>))

extractJobsFromEmailHtml(apiKey, call, reply) ==
  LET block == IF failsBeforeReply(apiKey, call) THEN Throw(thrownMessage(apiKey, call))
               ELSE Return(caught(extractedJobs(reply), ListResult(<<>>)))
  IN caught(block, ListResult(<<>>))

\* one element of parsed.map(...): reading a field of null throws
nearbyJob(job, index, role) ==
  [id |-> <<"nearby-", index>>,
   title |-> IF job.title = "" THEN role ELSE job.title,
   company |-> IF job.company = "" THEN "Unknown Company" ELSE job.company,
   source |-> "Location Search", matchScore |-> 75]

\* the inner try block of searchNearbyJobs
nearbyJobs(reply) ==
  LET parsed == parseJson(reply) IN
  IF parsed.threw THEN Throw(JsonErrorMessage)
  ELSE IF ~parsed.isArray THEN Return(ListResult(<<>>))
  ELSE IF \E i \in 1..Len(parsed.items) : parsed.items[i].null THEN Throw(NullItemMessage)
  ELSE Return(ListResult([i \in 1..Len(parsed.items) |->
                            nearbyJob(parsed.items[i], i - 1, "Engineer")]))

searchNearbyJobs(apiKey, call, reply) ==
  LET block == IF failsBeforeReply(apiKey, call) THEN Throw(thrownMessage(apiKey, call))
               ELSE Return(caught(nearbyJobs(reply), ListResult(<<>>)))
  IN caught(block, ListResult(<<>>))

\* A score reply is the sequence of its characters.
ReplyChars == {"1", "3", "7", "5", "-", " ", "x"}
ScoreReplies == UNION {[1..n -> ReplyChars] : n \in 0..MaxReplyLen}

\* the reply matters only when the call resolves with a text
RepliesFor(apiKey, call, replies) ==
  IF failsBeforeReply(apiKey, call) THEN {CHOOSE r \in replies : TRUE} ELSE replies

Digits == {"0", "1", "2", "3", "4", "5", "6", "7", "8", "9"}
digitValue(c) ==
  CASE c = "0" -> 0 [] c = "1" -> 1 [] c = "2" -> 2 [] c = "3" -> 3 [] c = "4" -> 4
    [] c = "5" -> 5 [] c = "6" -> 6 [] c = "7" -> 7 [] c = "8" -> 8 [] c = "9" -> 9

RECURSIVE trimStart(_)
trimStart(str) ==
  IF str # <<>> /\ Head(str) = " " THEN trimStart(Tail(str)) ELSE str

RECURSIVE trimEnd(_)
trimEnd(str) ==
  IF str # <<>> /\ str[Len(str)] = " " THEN trimEnd(SubSeq(str, 1, Len(str) - 1)) ELSE str

\* String.prototype.trim
trim(str) == trimEnd(trimStart(str))

RECURSIVE leadingDigits(_)
leadingDigits(str) ==
  IF str # <<>> /\ Head(str) \in Digits THEN <<Head(str)>> \o leadingDigits(Tail(str)) ELSE <<>>

RECURSIVE decimalValue(_)
decimalValue(digits) ==
  IF digits = <<>> THEN 0
  ELSE 10 * decimalValue(SubSeq(digits, 1, Len(digits) - 1)) + digitValue(digits[Len(digits)])

NaN == [nan |-> TRUE, n |-> 0]

\* parseInt(str, 10): leading white space, a sign, then the longest run of
\* digits; whatever follows the digits is ignored; NaN without a digit
parseInt(str) ==
  LET t == trimStart(str)
      negative == t # <<>> /\ Head(t) = "-"
      unsigned == IF t # <<>> /\ Head(t) \in {"-", "+"} THEN Tail(t) ELSE t
      digits == leadingDigits(unsigned)
  IN IF digits = <<>> THEN NaN
     ELSE [nan |-> FALSE, n |-> IF negative THEN 0 - decimalValue(digits) ELSE decimalValue(digits)]

Min(a, b) == IF a < b THEN a ELSE b
Max(a, b) == IF a > b THEN a ELSE b

DefaultScore == 50

\* the score returned as parsed
scoreOfUnclamped(score) == IF score.nan THEN DefaultScore ELSE score.n

\* isNaN(score) ? 50 : Math.min(100, Math.max(0, score))
scoreOf(score) == IF score.nan THEN DefaultScore ELSE Min(100, Max(0, score.n))

calculateJobMatchScore(apiKey, call, reply) ==
  LET block == IF failsBeforeReply(apiKey, call) THEN Throw(thrownMessage(apiKey, call))
               ELSE Return(ScoreResult(scoreOf(parseInt(trim(reply)))))
  IN caught(block, ScoreResult(DefaultScore))

\* What POST /api/extract-job ends in for extractJobFromUrl.
ExtractOutcomes == {"rejects", "notOk", "invalidJson", "noData", "data"}

extractJobFromUrl(outcome) ==
  LET block == IF outcome \in {"rejects", "invalidJson", "noData"} THEN Throw(outcome)
               ELSE IF outcome = "notOk" THEN Return(JobResult(TRUE, "Extraction Failed"))
               ELSE Return(JobResult(FALSE, "Engineer"))
  IN caught(block, JobResult(TRUE, "Extraction Failed"))

\* One call of an operation, from its arguments to its return.
GenerateCoverLetter ==
  \E apiKey \in BOOLEAN, call \in ModelCalls :
   \E reply \in RepliesFor(apiKey, call, GenerationReplies) :
    aiLast' = AiCall("generateCoverLetter", apiKey, call, reply,
                     generateCoverLetter(apiKey, call, reply))

CustomizeResume ==
  \E apiKey \in BOOLEAN, call \in ModelCalls :
   \E reply \in RepliesFor(apiKey, call, GenerationReplies) :
    aiLast' = AiCall("customizeResume", apiKey, call, reply,
                     customizeResume(apiKey, call, reply))

ExtractJobsFromEmailHtml ==
  \E apiKey \in BOOLEAN, call \in ModelCalls :
   \E reply \in RepliesFor(apiKey, call, ListReplies) :
    aiLast' = AiCall("extractJobsFromEmailHtml", apiKey, call, reply,
                     extractJobsFromEmailHtml(apiKey, call, reply))

SearchNearbyJobs ==
  \E apiKey \in BOOLEAN, call \in ModelCalls :
   \E reply \in RepliesFor(apiKey, call, ListReplies) :
    aiLast' = AiCall("searchNearbyJobs", apiKey, call, reply,
                     searchNearbyJobs(apiKey, call, reply))

CalculateJobMatchScore ==
  \E apiKey \in BOOLEAN, call \in ModelCalls :
   \E reply \in RepliesFor(apiKey, call, ScoreReplies) :
    aiLast' = AiCall("calculateJobMatchScore", apiKey, call, reply,
                     calculateJobMatchScore(apiKey, call, reply))

ExtractJobFromUrl ==
  \E outcome \in ExtractOutcomes :
    aiLast' = AiCall("extractJobFromUrl", TRUE, outcome, <<>>, extractJobFromUrl(outcome))

(***************************************************************************)
(* URL cleaning (services/geminiService.ts 235-260).  A URL string is the  *)
(* record of its parts as written: a query value is written either in the  *)
(* serializer's own form or in another form that parses to the same value  *)
(* ("a%20b" for "a+b", "k" for "k="), and the path of a URL written        *)
(* without one is "".                                                      *)
(***************************************************************************)
paramsToRemoveUtmOnly ==
  {"utm_source", "utm_medium", "utm_campaign", "utm_term", "utm_content"}

paramsToRemove ==
  {"utm_source", "utm_medium", "utm_campaign", "utm_term", "utm_content",
   "ref", "source", "click_id", "fbclid", "gclid"}

ParamNames == {"utm_source", "ref", "id", "q"}
Written == {"serialized", "other"}
QueryParams == [name : ParamNames, value : {"v"}, written : Written]
Queries == UNION {[1..n -> QueryParams] : n \in 0..MaxParams}

UrlString(path, query, hash) ==
  [parses |-> TRUE, text |-> "", origin |-> "https://jobs.example.com", path |-> path,
   query |-> query, hash |-> hash]
NotAUrl(text) ==
  [parses |-> FALSE, text |-> text, origin |-> "", path |-> "", query |-> <<>>, hash |-> ""]

UrlStrings ==
  {UrlString(path, query, "") : path \in {"", "/view"}, query \in Queries}
    \cup {UrlString("/view", <<>>, "#apply"), NotAUrl("/jobs/1"), NotAUrl("")}

\* new URL(url): the record of the URL, each part decoded
newURL(url) ==
  [origin |-> url.origin,
   pathname |-> IF url.path = "" THEN "/" ELSE url.path,
   searchParams |-> [i \in 1..Len(url.query) |->
                       [name |-> url.query[i].name, value |-> url.query[i].value]],
   hash |-> url.hash]

\* searchParams.delete(p) for every p of the list: all pairs of these names go
deleteParams(u, names) ==
  [u EXCEPT !.searchParams =
     SelectSeq(u.searchParams, LAMBDA pair : pair.name \notin names)]

\* u.toString(): the query is written anew from the list of pairs
toString(u) ==
  UrlString(u.pathname,
            [i \in 1..Len(u.searchParams) |->
               [name |-> u.searchParams[i].name, value |-> u.searchParams[i].value,
                written |-> "serialized"]],
            u.hash)

getSmartApplicationUrl(url) ==
  IF ~url.parses THEN url
  ELSE toString(deleteParams(newURL(url), paramsToRemove))

UrlCall(input, output, pass) == [input |-> input, output |-> output, pass |-> pass]
NoUrlCall == UrlCall(NotAUrl(""), NotAUrl(""), 0)

\* a caller cleans a URL
GetSmartApplicationUrl ==
  \E url \in UrlStrings :
    urlLast' = UrlCall(url, getSmartApplicationUrl(url), 1)

\* a caller cleans the URL it got back
GetSmartApplicationUrlAgain ==
  /\ urlLast.pass = 1
  /\ urlLast' = UrlCall(urlLast.output, getSmartApplicationUrl(urlLast.output), 2)

(***************************************************************************)
(* Real-mode write (services/fileSystemService.ts 75-85).  Each await may  *)
(* reject; a stream's content reaches the file when the stream is closed.  *)
(***************************************************************************)
\* the await that rejects, if any
WriteFaults == {"none", "getFileHandle", "createWritable", "write"}

RealWriteMessage(fault) == Message("Failed to write file: ", fault)

RealCall(filename, content, fault, returned, opened, closed, error) ==
  [filename |-> filename, content |-> content, fault |-> fault, ok |-> returned,
   opened |-> opened, closed |-> closed, error |-> error]

NoRealCall == RealCall(None, Null, "none", FALSE, FALSE, FALSE, NoError)

\* dirHandle.getFileHandle(filename, { create: true }): the file exists afterwards
getFileHandleCreate(files, filename) ==
  IF filename \in DOMAIN files THEN files
  ELSE [f \in DOMAIN files \cup {filename} |-> IF f = filename THEN "" ELSE files[f]]

\* close() after a write: the file holds the content
closeWritten(files, filename, content) ==
  [f \in DOMAIN files \cup {filename} |-> IF f = filename THEN content ELSE files[f]]

\* the statements of the try block that ran: was close() reached
closeReached(fault) == fault = "none"

\* writeFileToDirectory(dirHandle, filename, content) with a real dirHandle
writeFileReal(filename, content, fault) ==
  LET opened == fault \in {"none", "write"}
      closed == opened /\ closeReached(fault)
      created == IF fault = "getFileHandle" THEN disk ELSE getFileHandleCreate(disk, filename)
  IN
  /\ disk' = IF fault = "none" THEN closeWritten(created, filename, content) ELSE created
  /\ unclosed' = IF opened /\ ~closed THEN unclosed \cup {filename} ELSE unclosed
  /\ realLast' = IF fault = "none"
                   THEN RealCall(filename, content, fault, TRUE, opened, closed, NoError)
                   ELSE RealCall(filename, content, fault, FALSE, opened, closed,
                                 RealWriteMessage(fault))

WriteFileReal ==
  \E filename \in FileNames, content \in Contents, fault \in WriteFaults :
    writeFileReal(filename, content, fault)

(***************************************************************************)
(* Specifications.                                                         *)
(***************************************************************************)
(***************************************************************************)
(* The company slot of the generation prompts (geminiService.ts 23-39,     *)
(* 82-91).  A company is a sequence of chunks of text; no needle the code  *)
(* searches for spans two chunks.                                          *)
(***************************************************************************)
Chunks == {"Acme", "Web", "site", "Site", "REVIEW", "Unknown", "Description"}
CompanyTexts == UNION {[1..n -> Chunks] : n \in 0..MaxChunks}

\* String.prototype.toLowerCase on one chunk
lowerChunk(c) ==
  CASE c = "Acme" -> "acme"
    [] c = "Web" -> "web"
    [] c = "Site" -> "site"
    [] c = "REVIEW" -> "review"
    [] c = "Unknown" -> "unknown"
    [] c = "Description" -> "description"
    [] OTHER -> c
toLowerCase(text) == [i \in 1..Len(text) |-> lowerChunk(text[i])]

\* String.prototype.includes
includes(text, needle) == \E i \in 1..Len(text) : text[i] = needle

\* !company
emptyCompany(company) == company = <<>>

\* isPlaceholder of generateCoverLetter (23-28)
isPlaceholderCoverLetter(company) ==
  \/ emptyCompany(company)
  \/ includes(toLowerCase(company), "review")
  \/ includes(toLowerCase(company), "unknown")
  \/ includes(toLowerCase(company), "site")
  \/ includes(toLowerCase(company), "description")

\* isPlaceholder of customizeResume (82-85)
isPlaceholderResume(company) ==
  \/ emptyCompany(company)
  \/ includes(toLowerCase(company), "review")
  \/ includes(toLowerCase(company), "unknown")

ScanInstruction == <<"Carefully scan the job description below to identify the actual company name. If not found, use \"Hiring Manager\".">>
TargetCompany == <<"the target company">>

\* `- Target Company: ${...}` of the cover letter prompt (35-39)
coverLetterSlot(company) ==
  IF isPlaceholderCoverLetter(company) THEN ScanInstruction ELSE company

\* `role at ${...}` of the resume prompt (89-91)
resumeSlot(company) ==
  IF isPlaceholderResume(company) THEN TargetCompany ELSE company

Prompt(op, company, slot) == [op |-> op, company |-> company, slot |-> slot]
NoPrompt == Prompt("none", <<>>, <<>>)

\* generateCoverLetter up to the prompt it sends, the API key being set
CoverLetterPrompt ==
  \E company \in CompanyTexts :
    promptLast' = Prompt("generateCoverLetter", company, coverLetterSlot(company))

\* customizeResume up to the prompt it sends, the API key being set
ResumePrompt ==
  \E company \in CompanyTexts :
    promptLast' = Prompt("customizeResume", company, resumeSlot(company))

(***************************************************************************)
(* The client shell (types.ts 126-197, 202, 252-254): syncData, the effect *)
(* that starts it, and the handlers that change the job list.              *)
(***************************************************************************)
SyncSlots == 1..MaxSyncCalls
AppJobIds == {"j1"}
Versions == 1..MaxVersions
NotListed == 0

Notification(message, type) == [message |-> message, type |-> type]
NoNotification == Notification("", "")
OfflineNotification == Notification("Offline mode. Database sync paused.", "error")
SyncedNotification == Notification("Workspace synced.", "success")
SyncFailedNotification == Notification("Sync failed. Using cache.", "error")

\* a syncData call between two awaits: the await it stands at, its argument
\* and the list its fetch was answered with
SyncCall(pc, isManual, dbJobs) == [pc |-> pc, isManual |-> isManual, dbJobs |-> dbJobs]
NoList == [id \in AppJobIds |-> NotListed]
NoSync == SyncCall("idle", FALSE, NoList)
FreeSyncSlots == {s \in SyncSlots : syncCalls[s].pc = "idle"}
SettledWith == {"value", "null", "throws"}

\* syncData up to its first await (149-155); navigatorOnLine as the call reads it
syncData(s, isManual, navigatorOnLine) ==
  IF ~navigatorOnLine
    THEN /\ notification' = OfflineNotification
         /\ UNCHANGED <<isSyncing, syncCalls>>
    ELSE /\ isSyncing' = TRUE
         /\ syncCalls' = [syncCalls EXCEPT ![s] = SyncCall("getToken", isManual, NoList)]
         /\ UNCHANGED notification

\* finally { setLoading(false); setIsSyncing(false); } and the call is over (165-168)
syncFinally(s) ==
  /\ loading' = FALSE
  /\ isSyncing' = FALSE
  /\ syncCalls' = [syncCalls EXCEPT ![s] = NoSync]

\* catch (e) { showNotification("Sync failed. Using cache.", "error") } (163-164)
syncCatch(s) ==
  /\ notification' = SyncFailedNotification
  /\ syncFinally(s)

\* await getToken() settles (156-157)
syncGetTokenSettles(s, outcome) ==
  /\ syncCalls[s].pc = "getToken"
  /\ IF outcome = "value"
       THEN /\ syncCalls' = [syncCalls EXCEPT ![s].pc = "getUserProfile"]
            /\ UNCHANGED <<loading, isSyncing, notification>>
     ELSE IF outcome = "null"
       THEN syncFinally(s) /\ UNCHANGED notification
     ELSE syncCatch(s)
  /\ UNCHANGED <<isLoaded, isSignedIn, onLine, isOnline, userProfile, appJobs, serverJobs, saves, intended>>

\* await getUserProfile(token) settles and fetchJobsFromDb(token) is called (158-160)
syncGetUserProfileSettles(s, outcome) ==
  /\ syncCalls[s].pc = "getUserProfile"
  /\ IF outcome = "throws"
       THEN syncCatch(s) /\ UNCHANGED userProfile
       ELSE /\ userProfile' = (IF outcome = "value" THEN TRUE ELSE userProfile)
            /\ syncCalls' = [syncCalls EXCEPT ![s].pc = "fetchJobsFromDb"]
            /\ UNCHANGED <<loading, isSyncing, notification>>
  /\ UNCHANGED <<isLoaded, isSignedIn, onLine, isOnline, appJobs, serverJobs, saves, intended>>

\* the server answers the fetch with the list it holds then
fetchJobsFromDbServed(s) ==
  /\ syncCalls[s].pc = "fetchJobsFromDb"
  /\ syncCalls' = [syncCalls EXCEPT ![s] = SyncCall("dbJobs", @.isManual, serverJobs)]
  /\ UNCHANGED <<isLoaded, isSignedIn, onLine, isOnline, loading, isSyncing, userProfile,
                 notification, appJobs, serverJobs, saves, intended>>

\* await fetchJobsFromDb(token) settles: setJobs(dbJobs) and the rest (160-168)
syncFetchJobsSettles(s, outcome) ==
  /\ syncCalls[s].pc = "dbJobs"
  /\ IF outcome = "value"
       THEN /\ appJobs' = syncCalls[s].dbJobs
            /\ notification' = (IF syncCalls[s].isManual THEN SyncedNotification ELSE notification)
            /\ syncFinally(s)
       ELSE syncCatch(s) /\ UNCHANGED appJobs
  /\ UNCHANGED <<isLoaded, isSignedIn, onLine, isOnline, userProfile, serverJobs, saves, intended>>

\* the auth provider reports: the effect of 171-182 runs with the new values
AuthReports ==
  \E signedIn \in BOOLEAN :
    /\ ~isLoaded \/ isSignedIn # signedIn
    /\ isLoaded' = TRUE
    /\ isSignedIn' = signedIn
    /\ IF signedIn
         THEN (\E s \in FreeSyncSlots : syncData(s, FALSE, onLine)) /\ UNCHANGED loading
         ELSE loading' = FALSE /\ UNCHANGED <<isSyncing, syncCalls, notification>>
    /\ UNCHANGED <<onLine, isOnline, userProfile, appJobs, serverJobs, saves, intended>>

\* handleOnline (172)
HandleOnline ==
  /\ ~onLine
  /\ onLine' = TRUE
  /\ isOnline' = TRUE
  /\ \E s \in FreeSyncSlots : syncData(s, FALSE, TRUE)
  /\ UNCHANGED <<isLoaded, isSignedIn, loading, userProfile, appJobs, serverJobs, saves, intended>>

\* handleOffline (173)
HandleOffline ==
  /\ onLine
  /\ onLine' = FALSE
  /\ isOnline' = FALSE
  /\ UNCHANGED <<isLoaded, isSignedIn, loading, isSyncing, userProfile, notification,
                 appJobs, serverJobs, syncCalls, saves, intended>>

\* syncData(true), asked for by the signed-in user
ManualSync ==
  /\ isLoaded /\ isSignedIn
  /\ \E s \in FreeSyncSlots : syncData(s, TRUE, onLine)
  /\ UNCHANGED <<isLoaded, isSignedIn, onLine, isOnline, loading, userProfile,
                 appJobs, serverJobs, saves, intended>>

SyncGetTokenSettles == \E s \in SyncSlots, outcome \in SettledWith : syncGetTokenSettles(s, outcome)
SyncGetUserProfileSettles == \E s \in SyncSlots, outcome \in SettledWith : syncGetUserProfileSettles(s, outcome)
FetchJobsFromDbServed == \E s \in SyncSlots : fetchJobsFromDbServed(s)
SyncFetchJobsSettles == \E s \in SyncSlots, outcome \in {"value", "throws"} : syncFetchJobsSettles(s, outcome)

\* a local change on its way to the server: the job as saved, or its deletion
Save(id, version) == [id |-> id, version |-> version]
Change(made, version) == [made |-> made, version |-> version]
NoChange == Change(FALSE, NotListed)

\* setJobs(prev => prev.map(j => j.id === updated.id ? updated : j)) (185)
replaceListed(list, id, version) ==
  [list EXCEPT ![id] = IF @ = NotListed THEN @ ELSE version]

\* the awaits that follow a local change have begun (186-187, 252)
awaitSave(id, version) ==
  /\ Cardinality(saves) < MaxSaves
  /\ Save(id, version) \notin saves
  /\ saves' = saves \cup {Save(id, version)}
  /\ UNCHANGED <<isLoaded, isSignedIn, onLine, isOnline, loading, isSyncing, userProfile,
                 notification, serverJobs, syncCalls, intended>>

\* onAdd and onImport: setJobs(p => [j, ...p]); handleUpdateJob(j) (202, 254)
AddJob ==
  \E id \in AppJobIds, version \in Versions :
    /\ isLoaded /\ isSignedIn
    /\ appJobs[id] = NotListed
    /\ appJobs' = replaceListed([appJobs EXCEPT ![id] = version], id, version)
    /\ awaitSave(id, version)

\* handleUpdateJob for a job of the list (184-188)
HandleUpdateJob ==
  \E id \in AppJobIds, version \in Versions :
    /\ isLoaded /\ isSignedIn
    /\ appJobs[id] \notin {NotListed, version}
    /\ appJobs' = replaceListed(appJobs, id, version)
    /\ awaitSave(id, version)

\* onDelete: setJobs(prev => prev.filter(j => j.id !== id)) (252)
DeleteJob ==
  \E id \in AppJobIds :
    /\ isLoaded /\ isSignedIn
    /\ appJobs[id] # NotListed
    /\ appJobs' = [appJobs EXCEPT ![id] = NotListed]
    /\ awaitSave(id, NotListed)

\* getToken and saveJobToDb / deleteJobFromDb settle; reached is whether
\* there was a token and the request changed the table (186-187, 252)
SaveSettles ==
  \E save \in saves, reached \in BOOLEAN :
    /\ saves' = saves \ {save}
    /\ serverJobs' = (IF reached THEN [serverJobs EXCEPT ![save.id] = save.version] ELSE serverJobs)
    /\ intended' = [intended EXCEPT ![save.id] = IF reached THEN Change(TRUE, save.version) ELSE NoChange]
    /\ UNCHANGED <<isLoaded, isSignedIn, onLine, isOnline, loading, isSyncing, userProfile,
                   notification, appJobs, syncCalls>>

\* the database time at which a longer session of one deployment starts
SessionEpoch == 1 - MaxClock

InitAt(now) ==
  /\ nodeEnv \in {"development", "production"}
  /\ databaseUrl \in BOOLEAN
  /\ jobsSql = NoHandle
  /\ profileSql = NoHandle
  /\ jobs = EmptyTable
  /\ profiles = EmptyTable
  /\ clock = now
  /\ inflight = [s \in Slots |-> NoEntry]
  /\ last = NoStep
  /\ served = 0
  /\ lastSaved = [u \in Users \cup {DevUser} |-> NoBody]
  /\ storage = EmptyTable
  /\ handles = 0
  /\ lastWrite = [n \in FileNames |-> Unwritten]
  /\ fsLast = NoFsCall
  /\ ghPc = "idle"
  /\ ghCall = NoCall
  /\ ghLog = <<>>
  /\ ghResult = NoResult
  /\ aiLast = NoAiCall
  /\ urlLast = NoUrlCall
  /\ disk = EmptyTable
  /\ unclosed = {}
  /\ realLast = NoRealCall
  /\ promptLast = NoPrompt
  /\ isLoaded = FALSE
  /\ isSignedIn = FALSE
  /\ onLine = TRUE
  /\ isOnline = onLine
  /\ loading = TRUE
  /\ isSyncing = FALSE
  /\ userProfile = FALSE
  /\ notification = NoNotification
  /\ appJobs = [id \in AppJobIds |-> NotListed]
  /\ serverJobs = [id \in AppJobIds |-> NotListed]
  /\ syncCalls = [s \in SyncSlots |-> NoSync]
  /\ saves = {}
  /\ intended = [id \in AppJobIds |-> NoChange]

Init == InitAt(0)

\* The jobs function alone, to the depth MaxClock allows.
JobsStep == JobsRequest /\ UNCHANGED <<served, clientVars>>
NextJobs == JobsStep
SpecJobs == Init /\ [][NextJobs]_vars

\* The jobs function serving signed-in sessions from SessionEpoch on, which
\* leaves room for two inserts and a later update.
JobsSessionStep == JobsSessionRequest /\ UNCHANGED <<served, clientVars>>
NextJobsSession == JobsSessionStep
InitJobsSession == InitAt(SessionEpoch) /\ nodeEnv = "production" /\ databaseUrl
SpecJobsSession == InitJobsSession /\ [][NextJobsSession]_vars

\* The profile function alone, with up to MaxInflight overlapping POSTs.
ProfileStep == ProfileRequest /\ UNCHANGED <<served, clientVars>>
ProfileCompleteStep == ProfilePostComplete /\ UNCHANGED <<served, clientVars>>
NextProfile == ProfileStep \/ ProfileCompleteStep
SpecProfile == Init /\ [][NextProfile]_vars

\* The whole deployment: any MaxRequests requests to the three endpoints.
Admit == served < MaxRequests /\ served' = served + 1 /\ UNCHANGED clientVars
ApiJobs == Admit /\ JobsRequest
ApiProfile == Admit /\ ProfileRequest
ApiProfileComplete == ProfilePostComplete /\ UNCHANGED <<served, clientVars>>
ApiNearby == Admit /\ NearbyRequest
Next == ApiJobs \/ ApiProfile \/ ApiProfileComplete \/ ApiNearby
Spec == Init /\ [][Next]_vars

\* The virtual file storage alone: any calls, with up to MaxHandles handles.
FsCreate == CreateVirtualDirectory /\ UNCHANGED <<apiVars, ghVars, aiVars, urlVars, realVars, promptVars, appVars>>
FsWrite == WriteFileToDirectory /\ UNCHANGED <<apiVars, ghVars, aiVars, urlVars, realVars, promptVars, appVars>>
FsRead == ReadFileFromDirectory /\ UNCHANGED <<apiVars, ghVars, aiVars, urlVars, realVars, promptVars, appVars>>
NextFs == FsCreate \/ FsWrite \/ FsRead
SpecFs == Init /\ [][NextFs]_vars

\* The GitHub backup alone: any number of calls, one after the other.
GhSync == SyncJobsToGithub /\ UNCHANGED <<apiVars, fsVars, aiVars, urlVars, realVars, promptVars, appVars>>
GhGetSettles == CommitFileAfterGet /\ UNCHANGED <<apiVars, fsVars, aiVars, urlVars, realVars, promptVars, appVars>>
GhPutSettles == CommitFileAfterPut /\ UNCHANGED <<apiVars, fsVars, aiVars, urlVars, realVars, promptVars, appVars>>
NextGithub == GhSync \/ GhGetSettles \/ GhPutSettles
SpecGithub == Init /\ [][NextGithub]_vars

\* The AI operations alone: any calls, in any order.
AiCoverLetter == GenerateCoverLetter /\ UNCHANGED <<apiVars, fsVars, ghVars, urlVars, realVars, promptVars, appVars>>
AiResume == CustomizeResume /\ UNCHANGED <<apiVars, fsVars, ghVars, urlVars, realVars, promptVars, appVars>>
AiEmailJobs == ExtractJobsFromEmailHtml /\ UNCHANGED <<apiVars, fsVars, ghVars, urlVars, realVars, promptVars, appVars>>
AiNearbyJobs == SearchNearbyJobs /\ UNCHANGED <<apiVars, fsVars, ghVars, urlVars, realVars, promptVars, appVars>>
AiMatchScore == CalculateJobMatchScore /\ UNCHANGED <<apiVars, fsVars, ghVars, urlVars, realVars, promptVars, appVars>>
AiUrlJob == ExtractJobFromUrl /\ UNCHANGED <<apiVars, fsVars, ghVars, urlVars, realVars, promptVars, appVars>>
NextAi == AiCoverLetter \/ AiResume \/ AiEmailJobs \/ AiNearbyJobs \/ AiMatchScore \/ AiUrlJob
InitAi == Init /\ nodeEnv = "production" /\ databaseUrl
SpecAi == InitAi /\ [][NextAi]_vars

\* The URL cleaning alone: any URLs, each cleaned once or twice.
UrlClean == GetSmartApplicationUrl /\ UNCHANGED <<apiVars, fsVars, ghVars, aiVars, realVars, promptVars, appVars>>
UrlCleanAgain == GetSmartApplicationUrlAgain /\ UNCHANGED <<apiVars, fsVars, ghVars, aiVars, realVars, promptVars, appVars>>
NextUrl == UrlClean \/ UrlCleanAgain
SpecUrl == InitAi /\ [][NextUrl]_vars

\* Real-mode writes alone: any writes, any of whose awaits may reject.
RealWrite == WriteFileReal /\ UNCHANGED <<apiVars, fsVars, ghVars, aiVars, urlVars, promptVars, appVars>>
NextReal == RealWrite
SpecReal == InitAi /\ [][NextReal]_vars

\* The prompts of the two generation functions, for any company text.
PromptCoverLetter == CoverLetterPrompt /\ UNCHANGED <<apiVars, fsVars, ghVars, aiVars, urlVars, realVars, appVars>>
PromptResume == ResumePrompt /\ UNCHANGED <<apiVars, fsVars, ghVars, aiVars, urlVars, realVars, appVars>>
NextPrompt == PromptCoverLetter \/ PromptResume
SpecPrompt == InitAi /\ [][NextPrompt]_vars

\* The client shell: what the auth provider, the browser and the user do, and
\* the awaits of the running calls settling in any order.
OtherThanApp == <<apiVars, fsVars, ghVars, aiVars, urlVars, realVars, promptVars>>
AppAuthReports == AuthReports /\ UNCHANGED OtherThanApp
AppOnline == HandleOnline /\ UNCHANGED OtherThanApp
AppOffline == HandleOffline /\ UNCHANGED OtherThanApp
AppManualSync == ManualSync /\ UNCHANGED OtherThanApp
AppGetToken == SyncGetTokenSettles /\ UNCHANGED OtherThanApp
AppGetUserProfile == SyncGetUserProfileSettles /\ UNCHANGED OtherThanApp
AppFetchServed == FetchJobsFromDbServed /\ UNCHANGED OtherThanApp
AppFetchJobs == SyncFetchJobsSettles /\ UNCHANGED OtherThanApp
AppAddJob == AddJob /\ UNCHANGED OtherThanApp
AppUpdateJob == HandleUpdateJob /\ UNCHANGED OtherThanApp
AppDeleteJob == DeleteJob /\ UNCHANGED OtherThanApp
AppSaveSettles == SaveSettles /\ UNCHANGED OtherThanApp
NextSync ==
  \/ AppAuthReports \/ AppOnline \/ AppOffline \/ AppManualSync
  \/ AppGetToken \/ AppGetUserProfile \/ AppFetchServed \/ AppFetchJobs
NextApp == NextSync \/ AppAddJob \/ AppUpdateJob \/ AppDeleteJob \/ AppSaveSettles
SpecApp == InitAi /\ [][NextApp]_vars

\* Every await of a running syncData call settles: the promises it waits for
\* are those of the auth provider and of fetch, which resolve or reject.  The
\* auth provider, the browser and the user are under no obligation.
SyncSettles(s) ==
  /\ \/ \E outcome \in SettledWith : syncGetTokenSettles(s, outcome)
     \/ \E outcome \in SettledWith : syncGetUserProfileSettles(s, outcome)
     \/ fetchJobsFromDbServed(s)
     \/ \E outcome \in {"value", "throws"} : syncFetchJobsSettles(s, outcome)
  /\ UNCHANGED OtherThanApp
SpecSyncFair == InitAi /\ [][NextSync]_vars /\ \A s \in SyncSlots : WF_vars(SyncSettles(s))



(***************************************************************************)
(* Properties.                                                             *)
(***************************************************************************)
AllUsers == Users \cup {DevUser}
\* a request that carries no acceptable credential while the bypass is off
Unauthenticated(step) ==
  step.authCase \in {"absent", "malformed", "netfail", "nonok", "noid"}

\* C1: no jobs request made by one user changes any stored field of a job row
\* owned by another user, a POST carrying the other user's job id included.
C1_RequestsLeaveOtherOwnersRows ==
  [][(last'.ep = "jobs" /\ last'.userId # None) =>
       \A id \in DOMAIN jobs :
         jobs[id].user_id # last'.userId =>
           (id \in DOMAIN jobs' /\ jobs'[id] = jobs[id])]_vars

\* C2: a DELETE by one user with the id of another user's job removes nothing of
\* the other user: the owner's list is the same after it as before.
C2_DeleteIsOwnerScoped ==
  [][(last'.ep = "jobs" /\ last'.method = "DELETE") =>
       \A u \in AllUsers :
         u # last'.userId =>
           /\ listJobs(jobs', u) = listJobs(jobs, u)
           /\ \A id \in DOMAIN jobs :
                jobs[id].user_id = u => (id \in DOMAIN jobs' /\ jobs'[id] = jobs[id])]_vars

\* a DELETE that ran with the id of a row owned by somebody else
C2_Witness ==
  /\ last.ep = "jobs" /\ last.method = "DELETE" /\ last.status = 200
  /\ last.jobId \in DOMAIN jobs
  /\ jobs[last.jobId].user_id # last.userId
  /\ Len(listJobs(jobs, jobs[last.jobId].user_id)) = 1

\* the value a Job document shows for a field the POST body omitted
JobFieldDefault ==
  [title |-> "", company |-> "", description |-> "", status |-> "Detected",
   source |-> "Manual", applicationUrl |-> Null, matchScore |-> 0,
   coverLetter |-> Null, customizedResume |-> Null, location |-> "",
   salaryRange |-> "", requirements |-> <<>>, notes |-> "", logoUrl |-> ""]

\* the document with this id in the list a GET by userId returns, if any
ReadBack(userId, id) ==
  LET docs == listJobs(jobs, userId) IN {docs[i] : i \in {j \in 1..Len(docs) : docs[j].id = id}}

\* C3: after a successful POST the same user's GET returns a job with that id in
\* which every supplied field has the supplied value and every omitted field its default.
C3_UpsertReadsBack ==
  (last.ep = "jobs" /\ last.method = "POST" /\ last.status = 200) =>
    /\ ReadBack(last.userId, last.body.id) # {}
    /\ \A doc \in ReadBack(last.userId, last.body.id) :
         \A f \in JobFields \ {"id"} :
           doc[f] = IF f \in last.body.supplied THEN Val(last.body, f) ELSE JobFieldDefault[f]

\* C4: with the bypass off, a GET, POST or DELETE to the jobs or profile endpoint
\* without an acceptable credential is answered 401, sends no statement, changes
\* no table and creates no database handle.
C4_UnauthenticatedIs401 ==
  [][(/\ last'.ep \in {"jobs", "profile"}
      /\ last'.method \in {"GET", "POST", "DELETE"}
      /\ nodeEnv # "development"
      /\ Unauthenticated(last')) =>
       /\ last'.status = 401
       /\ last'.stmts = 0
       /\ last'.userId = None
       /\ UNCHANGED <<jobs, profiles, jobsSql, profileSql, inflight>>]_vars

\* a Bearer token the provider answers for with success but without any id field
C4_Witness ==
  /\ nodeEnv # "development"
  /\ last.ep = "profile" /\ last.method = "POST"
  /\ last.authCase = "noid" /\ last.fetches = 1
  /\ last.status = 401
  /\ profileSql = NoHandle

\* C5: in development mode every jobs and profile request that gets past the
\* pre-flight answer acts as 'dev_user_123' whatever its authorization header is,
\* no verification call is made and nothing is answered 401; outside development
\* mode that id never acts and never owns a row.
C5_DevelopmentBypass ==
  /\ (nodeEnv = "development" /\ last.ep \in {"jobs", "profile"}) =>
       /\ last.fetches = 0
       /\ last.status # 401
       /\ last.method # "OPTIONS" => last.userId = DevUser
  /\ nodeEnv # "development" =>
       /\ last.userId # DevUser
       /\ \A id \in DOMAIN jobs : jobs[id].user_id # DevUser
       /\ DevUser \notin DOMAIN profiles
       /\ \A s \in Slots : inflight[s].userId # DevUser

\* a write accepted in development mode from a request without any header
C5_Witness ==
  /\ nodeEnv = "development"
  /\ last.ep = "jobs" /\ last.method = "POST" /\ last.status = 200
  /\ ~last.authHeader.present
  /\ last.userId = DevUser
  /\ jobs[last.body.id].user_id = DevUser

\* C6: every handler sets the cross-origin headers on every response and answers
\* OPTIONS with 200 and no body, without authentication, database or model call.
C6_CorsAndPreflight ==
  last.status # 0 =>
    /\ last.cors
    /\ last.method = "OPTIONS" =>
         /\ last.status = 200 /\ last.payload = "none"
         /\ last.userId = None /\ last.fetches = 0
         /\ last.stmts = 0 /\ last.aiCalls = 0

\* an authenticated jobs POST without body or id, or DELETE without id
InvalidJobsRequest(step) ==
  /\ step.ep = "jobs"
  /\ step.userId # None
  /\ \/ step.method = "POST" /\ (~step.body.present \/ "id" \notin step.body.supplied)
     \/ step.method = "DELETE" /\ step.jobId = None

\* C7 as stated: such a request is answered with 400.
C7_InvalidIs400 == InvalidJobsRequest(last) => last.status = 400

\* C7 amended: such a request is answered with 400 when DATABASE_URL is set and
\* with 500 when it is not, and in both cases sends no statement and leaves
\* every job row as it was.
C7_InvalidIs400OrNoDatabase ==
  [][InvalidJobsRequest(last') =>
       /\ last'.status = IF databaseUrl THEN 400 ELSE 500
       /\ last'.stmts = 0
       /\ jobs' = jobs]_vars

\* a POST without id answered 400 while rows are stored
C7_Witness ==
  /\ last.ep = "jobs" /\ last.method = "POST" /\ last.status = 400
  /\ last.body.present /\ "id" \notin last.body.supplied
  /\ DOMAIN jobs # {}

\* a verb the endpoint does not serve
UnsupportedVerb(step) ==
  \/ step.ep = "jobs" /\ step.method \notin {"GET", "POST", "DELETE", "OPTIONS"}
  \/ step.ep = "profile" /\ step.method \notin {"GET", "POST", "OPTIONS"}

\* C8 as stated: an unsupported verb is answered with 405.
C8_UnsupportedIs405 == UnsupportedVerb(last) => last.status = 405

\* C8 amended: an unsupported verb is answered 401 when the caller is not
\* authenticated, else 500 when DATABASE_URL is not set, else 405; in every case
\* no statement is sent and no table changes.
C8_UnsupportedIs405AfterAuth ==
  [][UnsupportedVerb(last') =>
       /\ last'.status = IF Unauthenticated(last') THEN 401
                         ELSE IF ~databaseUrl THEN 500 ELSE 405
       /\ last'.stmts = 0
       /\ UNCHANGED <<jobs, profiles, inflight>>]_vars

\* a PUT naming a stored job, answered 405
C8_Witness ==
  /\ last.ep = "jobs" /\ last.method = "PUT" /\ last.status = 405
  /\ last.userId # None
  /\ last.jobId \in DOMAIN jobs

GenericMessages == {"Internal Server Error", "Internal server error"}

\* C9: a failed statement or a missing DATABASE_URL is answered by the jobs and
\* the profile handler with 500 and nothing but a fixed generic message.
C9_ErrorsAreGeneric ==
  (/\ last.ep \in {"jobs", "profile"}
   /\ last.status # 0
   /\ last.dbFault \/ (~databaseUrl /\ last.userId # None)) =>
     /\ last.status = 500
     /\ last.error \in GenericMessages

\* C10: every profile POST of an authenticated user that meets no database
\* outage is answered 200 with the profile document, however it overlaps with
\* other POSTs of that user, and the user's row is stored.
C10_OverlappingSavesSucceed ==
  (/\ last.ep = "profile" /\ last.method = "POST"
   /\ last.status # 0
   /\ last.userId # None
   /\ last.body.present
   /\ databaseUrl /\ ~last.dbFault) =>
     /\ last.status = 200
     /\ last.payload = "profile"
     /\ last.userId \in DOMAIN profiles

\* what a GET shows of a profile written with this body
WrittenProfile(body) ==
  [fullName |-> Or2Str(body, "fullName", "full_name", ""),
   email |-> Param(body, "email"),
   phone |-> OrStr(body, "phone", ""),
   resumeContent |-> Or2Str(body, "resumeContent", "resume_content", ""),
   resumeFileName |-> Or2Str(body, "resumeFileName", "resume_file_name", ""),
   preferences |-> OrObj(body, "preferences", {}),
   connectedAccounts |-> Or2List(body, "connectedAccounts", "connected_accounts", <<>>),
   plan |-> OrStr(body, "plan", "free")]

ShownProfile(doc) ==
  [f \in DOMAIN WrittenProfile(NoBody) |-> doc[f]]

\* a profile GET of an authenticated user whose query was answered by the database
AnsweredProfileGet(step) ==
  /\ step.ep = "profile" /\ step.method = "GET"
  /\ step.userId # None
  /\ step.stmts = 1 /\ ~step.dbFault

\* C11: a profile GET of an authenticated user is answered 404 exactly when no
\* POST of that user has succeeded before it, and otherwise 200 with the user's
\* id and the values of that user's latest successful POST; a profile request
\* creates or changes no row but the one whose id is the verified user id.
C11_ProfileGetShowsLatestSave ==
  /\ [](AnsweredProfileGet(last) =>
          IF lastSaved[last.userId] = NoBody
            THEN last.status = 404 /\ last.doc = NoDoc
            ELSE /\ last.status = 200
                 /\ last.doc.id = last.userId
                 /\ ShownProfile(last.doc) = WrittenProfile(lastSaved[last.userId]))
  /\ [][last'.ep = "profile" =>
          \A u \in (DOMAIN profiles \cup DOMAIN profiles') \ {last'.userId} :
            /\ u \in DOMAIN profiles /\ u \in DOMAIN profiles'
            /\ profiles'[u] = profiles[u]]_vars

\* a GET shows the second save of a user who saved twice with different values
C11_Witness ==
  /\ AnsweredProfileGet(last)
  /\ last.status = 200
  /\ clock = 2
  /\ last.doc.email = FieldVals(2).email
  /\ lastSaved[last.userId].ver = 2

\* C12: in virtual mode a read of a name returns the content of the latest
\* successful write of that name, whatever was done to other names (and
\* whatever else was called) in between.
C12_ReadReturnsLatestWrite ==
  (fsLast.op = "readFileFromDirectory" /\ lastWrite[fsLast.filename] # Unwritten) =>
     /\ fsLast.ok
     /\ fsLast.result = lastWrite[fsLast.filename]

\* C13: in virtual mode a read of a name that no write has ever stored fails
\* with 'File not found in virtual workspace: <name>' and returns no content,
\* for every name.
C13_UnwrittenIsNotFound ==
  (fsLast.op = "readFileFromDirectory" /\ lastWrite[fsLast.filename] = Unwritten) =>
     /\ ~fsLast.ok
     /\ fsLast.error = NotFoundMessage(fsLast.filename)
     /\ fsLast.result = Null

\* C13 amended: the same for every name but jobs.txt, which the constructor of
\* the handle has seeded: a read of the never-written jobs.txt returns the sample.
C13_UnwrittenIsNotFoundUnlessSeeded ==
  (fsLast.op = "readFileFromDirectory" /\ lastWrite[fsLast.filename] = Unwritten) =>
     IF fsLast.filename = "jobs.txt"
       THEN fsLast.ok /\ fsLast.result = SAMPLE_JOBS_TXT /\ fsLast.error = NoError
       ELSE ~fsLast.ok /\ fsLast.error = NotFoundMessage(fsLast.filename)
            /\ fsLast.result = Null

\* resume.txt is read before any write of it, after jobs.txt was written
C13_Witness ==
  /\ fsLast.op = "readFileFromDirectory"
  /\ fsLast.filename = "resume.txt"
  /\ lastWrite["resume.txt"] = Unwritten
  /\ lastWrite["jobs.txt"] = "text1"
  /\ ~fsLast.ok

\* C14: a virtual write the store rejects fails with 'Quota exceeded in virtual
\* storage.' and leaves the content of every name as it was.
C14_RejectedWriteChangesNothing ==
  [][(fsLast'.op = "writeFileToDirectory" /\ fsLast'.rejected) =>
       /\ ~fsLast'.ok
       /\ fsLast'.error = QuotaMessage
       /\ storage' = storage]_vars

\* a write of a name that holds other content is rejected
C14_Witness ==
  /\ fsLast.op = "writeFileToDirectory" /\ fsLast.rejected
  /\ fsLast.content = "text2"
  /\ getItem(storage, virtualKey(fsLast.filename)) = "text1"

\* C15: the sample is stored under jobs.txt by the first createVirtualDirectory
\* only: a later call leaves the content of jobs.txt as it is, empty content
\* included, and no call creates or changes the entry of another name.
C15_SeededOnFirstUseOnly ==
  [][fsLast'.op = "createVirtualDirectory" =>
       /\ \A n \in FileNames \ {"jobs.txt"} :
            getItem(storage', virtualKey(n)) = getItem(storage, virtualKey(n))
       /\ handles > 0 =>
            getItem(storage', virtualKey("jobs.txt")) = getItem(storage, virtualKey("jobs.txt"))]_vars

\* the repository string has exactly one '/', with a character on each side
TwoSegments(repo) ==
  /\ Cardinality({i \in 1..Len(repo) : repo[i] = "/"}) = 1
  /\ Len(repo) >= 3
  /\ repo[1] # "/" /\ repo[Len(repo)] # "/"

Requests(log) == {i \in 1..Len(log) : log[i].ev = "request"}

\* C16: a call whose repository string is not two non-empty segments around
\* one '/' returns a failure and sends no request.
C16_MalformedRepoSendsNothing ==
  (ghPc # "idle" /\ ~TwoSegments(ghCall.repo)) =>
     /\ ghPc = "done"
     /\ ghResult.returned /\ ~ghResult.success
     /\ Requests(ghLog) = {}

\* C17: a call with a valid repository string sends one GET of the backup path,
\* and once that has settled one PUT to the same path with the sha the GET
\* returned (none unless the GET succeeded); it sends nothing else, and after
\* a 404 on the GET a PUT that succeeds makes the call succeed.
C17_GetThenPut ==
  (ghPc # "idle" /\ TwoSegments(ghCall.repo)) =>
     /\ Len(ghLog) = CASE ghPc = "get" -> 1 [] ghPc = "put" -> 3 [] ghPc = "done" -> 4
     /\ ghLog[1] = Request("GET", ghCall.repo, jobsPath, NoSha, Null)
     /\ Len(ghLog) >= 3 =>
          /\ ghLog[2].ev = "response"
          /\ ghLog[3].ev = "request" /\ ghLog[3].method = "PUT"
          /\ ghLog[3].repo = ghLog[1].repo /\ ghLog[3].path = ghLog[1].path
          /\ ghLog[3].sha = IF ghLog[2].res.kind = "response" /\ ghLog[2].res.status = 200
                              THEN ghLog[2].res.sha ELSE NoSha
     /\ Len(ghLog) = 4 =>
          /\ ghLog[4].ev = "response"
          /\ (/\ ghLog[2].res.kind = "response" /\ ghLog[2].res.status = 404
              /\ ghLog[4].res.kind = "response" /\ ghLog[4].res.status = 201
              /\ ghLog[4].res.content)
             => ghResult.success

\* the backup file exists: the PUT carries the sha of the GET and the call succeeds
C17_Witness ==
  /\ ghPc = "done" /\ TwoSegments(ghCall.repo)
  /\ ghLog[2].res.sha = "sha1"
  /\ ghLog[3].sha = "sha1"
  /\ ghResult.success

\* a response with a status outside 2xx
NonSuccess(res) == res.kind = "response" /\ res.status \notin 200..299

\* the second entry of the log is the response of the initial read
Tolerated(log, i) == i = 2 /\ log[i].res.kind = "response" /\ log[i].res.status = 404

\* the messages of a failure whose response carries none
Fallbacks == {FailedToSync(jobsPath), SyncFailedMessage}

\* C18: the call always returns; it returns success only if every request got
\* a success response, a 404 on the initial read excepted; after any other
\* non-success response it returns a failure whose message is the one the
\* response carries, or a fallback when it carries none.
C18_FailureIsReported ==
  ghPc = "done" =>
     /\ ghResult.returned
     /\ ghResult.success =>
          \A i \in 1..Len(ghLog) :
            ghLog[i].ev = "response" =>
              (ghLog[i].res.kind = "response" /\ ~NonSuccess(ghLog[i].res)) \/ Tolerated(ghLog, i)
     /\ \A i \in 1..Len(ghLog) :
          (ghLog[i].ev = "response" /\ NonSuccess(ghLog[i].res) /\ ~Tolerated(ghLog, i)) =>
             /\ ~ghResult.success
             /\ ghResult.message \in
                  IF ghLog[i].res.message # NoError THEN {ghLog[i].res.message} ELSE Fallbacks

\* the call failed: no API key, a model call that throws or resolves without a
\* response, or a reply that cannot be parsed
AiFailure(c) ==
  \/ failsBeforeReply(c.apiKey, c.call)
  \/ /\ c.op = "extractJobsFromEmailHtml"
     /\ c.reply.json = "invalid"
  \/ /\ c.op = "searchNearbyJobs"
     /\ c.reply.json = "invalid" \/ c.reply.prose
  \/ /\ c.op = "calculateJobMatchScore"
     /\ \A i \in 1..Len(c.reply) : c.reply[i] \notin Digits

\* C19: every call of an AI operation returns a value; after a failure the
\* list operations return the empty list, the match score is 50, and the
\* generation operations return an error text as their content.
C19_FailuresBecomeDefaults ==
  aiLast.op # "none" =>
     /\ aiLast.returned
     /\ (aiLast.op \in {"extractJobsFromEmailHtml", "searchNearbyJobs"} /\ AiFailure(aiLast)) =>
          aiLast.result = ListResult(<<>>)
     /\ (aiLast.op = "calculateJobMatchScore" /\ AiFailure(aiLast)) =>
          aiLast.result = ScoreResult(50)
     /\ (aiLast.op \in {"generateCoverLetter", "customizeResume"} /\ AiFailure(aiLast)) =>
          aiLast.result.kind = "text" /\ aiLast.result.failed
     /\ (aiLast.op = "extractJobFromUrl" /\ aiLast.call # "data") =>
          aiLast.result.kind = "job" /\ aiLast.result.failed

\* the API key is set, the model call resolves, and the reply holds no JSON
C19_Witness ==
  /\ aiLast.op = "searchNearbyJobs"
  /\ aiLast.apiKey /\ aiLast.call = "text"
  /\ aiLast.reply.json = "invalid"
  /\ aiLast.result = ListResult(<<>>)

\* C20: the match score is an integer of 0..100: a reply that parses to an
\* integer n gives min(100, max(0, n)), so "137" gives 100 and "-5" gives 0;
\* a reply that does not parse, and a failed call, give 50.
C20_ScoreIsClamped ==
  aiLast.op = "calculateJobMatchScore" =>
     LET score == aiLast.result.score
         replied == aiLast.apiKey /\ aiLast.call = "text"
         parsed == parseInt(aiLast.reply)
     IN /\ score \in 0..100
        /\ (replied /\ ~parsed.nan) =>
             score = (IF parsed.n > 100 THEN 100 ELSE IF parsed.n < 0 THEN 0 ELSE parsed.n)
        /\ (~replied \/ parsed.nan) => score = 50
        /\ (replied /\ aiLast.reply = <<"1", "3", "7">>) => score = 100
        /\ (replied /\ aiLast.reply = <<"-", "5">>) => score = 0
        /\ (replied /\ aiLast.reply = <<"x", "7">>) => score = 50

\* the reply "137" is answered with 100
C20_Witness ==
  /\ aiLast.op = "calculateJobMatchScore"
  /\ aiLast.apiKey /\ aiLast.call = "text"
  /\ aiLast.reply = <<"1", "3", "7">>
  /\ aiLast.result.score = 100

\* the name/value pairs a URL string holds, in the order written
PairsOf(url) ==
  [i \in 1..Len(url.query) |-> <<url.query[i].name, url.query[i].value>>]

TrackingNames ==
  {"utm_source", "utm_medium", "utm_campaign", "utm_term", "utm_content",
   "ref", "source", "click_id", "fbclid", "gclid"}

\* C21: for a URL that parses the result is the same URL (origin, path and
\* fragment) whose parameters are the input's parameters with no tracking
\* name, in their order; an input that does not parse comes back unchanged;
\* cleaning the result again gives the result.
C21_TrackingParametersRemoved ==
  urlLast.pass > 0 =>
     /\ urlLast.input.parses =>
          /\ urlLast.output.parses
          /\ urlLast.output.origin = urlLast.input.origin
          /\ urlLast.output.path = (IF urlLast.input.path = "" THEN "/" ELSE urlLast.input.path)
          /\ urlLast.output.hash = urlLast.input.hash
          /\ PairsOf(urlLast.output) =
               SelectSeq(PairsOf(urlLast.input), LAMBDA pair : pair[1] \notin TrackingNames)
     /\ ~urlLast.input.parses => urlLast.output = urlLast.input
     /\ urlLast.pass = 2 => urlLast.output = urlLast.input

\* a URL written without a path, whose first parameter is written in another
\* form than the serializer's and whose second is a tracking parameter
C21_Witness ==
  /\ urlLast.pass = 1
  /\ urlLast.input.path = ""
  /\ Len(urlLast.input.query) = 2
  /\ urlLast.input.query[1] = [name |-> "id", value |-> "v", written |-> "other"]
  /\ urlLast.input.query[2].name = "utm_source"
  /\ PairsOf(urlLast.output) = <<<<"id", "v">>>>
  /\ urlLast.output # urlLast.input

\* the ids of a list of job documents, in order
IdsOf(list) == [i \in 1..Len(list) |-> list[i].id]

\* s without the id x
WithoutId(s, x) == SelectSeq(s, LAMBDA y : y # x)

\* the `jobs` array a GET by userId is answered with in a state of the table
JobsListed(tbl, userId) == IdsOf(listJobs(tbl, userId))

\* C23: a GET lists exactly the caller's jobs, newest creation time first;
\* an upsert of an existing id keeps the row's creation time, so every list
\* keeps its order; a first insert puts the job in front of its owner's
\* list; a delete only takes the job out.  Hence each list is the reverse of
\* the order of first insertion.
C23_ListedNewestFirst ==
  [][ /\ \A u \in Users :
           LET before == JobsListed(jobs, u)
               after == JobsListed(jobs', u)
               posted == last'.method = "POST" /\ last'.status = 200
               deleted == last'.method = "DELETE" /\ last'.status = 200
           IN /\ {after[i] : i \in 1..Len(after)} = {x \in DOMAIN jobs' : jobs'[x].user_id = u}
              /\ \A i, j \in 1..Len(after) :
                     i < j => jobs'[after[i]].created_at > jobs'[after[j]].created_at
              /\ IF posted /\ last'.body.id \notin DOMAIN jobs
                   THEN after = (IF last'.userId = u THEN <<last'.body.id>> ELSE <<>>) \o before
                 ELSE IF deleted
                   THEN after = (IF last'.userId = u THEN WithoutId(before, last'.jobId) ELSE before)
                 ELSE after = before
      /\ \A x \in DOMAIN jobs \cap DOMAIN jobs' : jobs'[x].created_at = jobs[x].created_at
    ]_vars

\* the older of a user's two jobs has just been updated, after the newer one
\* was created, and is still listed second
C23_Witness ==
  /\ last.ep = "jobs" /\ last.method = "POST" /\ last.status = 200
  /\ last.userId = "user_A" /\ last.body.id = "j1"
  /\ JobsListed(jobs, "user_A") = <<"j2", "j1">>
  /\ jobs["j1"].updated_at > jobs["j2"].created_at

\* the step just taken is a request to handler ep that passed authentication
Authenticated(ep) == last'.ep = ep /\ last'.method # "OPTIONS" /\ last'.userId # None

\* what a step of handler ep may do to the module's handle
HandleStep(ep, sql, sqlAfter) ==
  /\ sqlAfter \in {NoHandle, neon(NoHandle)}
  /\ sql # NoHandle => sqlAfter = sql
  /\ sqlAfter # sql => Authenticated(ep) /\ databaseUrl
  /\ Authenticated(ep) =>
        IF databaseUrl THEN sqlAfter = neon(NoHandle)
        ELSE sqlAfter = NoHandle /\ last'.status = 500

\* C24: in each handler module the handle is created at most once, by the
\* first request that passes authentication, and kept by every later
\* request; without DATABASE_URL no handle is stored and every request that
\* passes authentication is answered 500.
C24_HandleCreatedOnce ==
  [][ /\ HandleStep("jobs", jobsSql, jobsSql')
      /\ HandleStep("profile", profileSql, profileSql') ]_vars

\* a list request answered from a table that an earlier request filled: the
\* jobs module holds its first handle, the profile module none yet
C24_Witness ==
  /\ last.ep = "jobs" /\ last.method = "GET" /\ last.status = 200
  /\ jobs # EmptyTable
  /\ jobsSql = neon(NoHandle)
  /\ profileSql = NoHandle

PlaceholderWords == {"review", "unknown", "site", "description"}

\* the company is empty or holds one of the four words, in any case
GenericCompany(company) ==
  company = <<>> \/ \E w \in PlaceholderWords : includes(toLowerCase(company), w)

\* C25: in the prompts of both functions the company slot holds the company
\* text exactly when the company is not empty and holds none of "review",
\* "unknown", "site", "description" in any case; otherwise the text is kept
\* out of the slot.
C25_PlaceholderCompanyKeptOut ==
  promptLast.op # "none" =>
    IF GenericCompany(promptLast.company)
      THEN promptLast.slot # promptLast.company
      ELSE promptLast.slot = promptLast.company

\* C26: once the auth provider has reported loaded, loading becomes false.
C26_LoadingEventuallyFalse == isLoaded ~> ~loading

SyncInFlight == \E s \in SyncSlots : syncCalls[s].pc # "idle"

\* C27: isSyncing is true exactly while some syncData call is in flight, and
\* every call that set it comes to its end, where it clears it.
C27_SyncingWhileInFlight ==
  /\ [](isSyncing <=> SyncInFlight)
  /\ \A s \in SyncSlots : (syncCalls[s].pc # "idle") ~> (syncCalls[s].pc = "idle")

\* C28: when no syncData call and no save is under way, the list shows every
\* job as its latest saved local change left it: added and updated jobs with
\* their latest version, deleted jobs not at all.
C28_LocalChangesSurviveSync ==
  (saves = {} /\ ~SyncInFlight) =>
     \A id \in AppJobIds : intended[id].made => appJobs[id] = intended[id].version

\* C22: a real-mode write that has opened a write stream has closed it when
\* the call returns or throws, also when writing the content fails.
C22_StreamClosedOnEveryExit ==
  /\ realLast.opened => realLast.closed
  /\ unclosed = {}

====
